---- MODULE Spec2Model ----
(***************************************************************************)
(* A model of strayca7/siam's error-code core:                             *)
(*   - pkg/serrors/code.go : the process-wide registry `codes`, guarded by *)
(*     `mu`, with Register, MustRegister, ParseCoder, IsCode and Codes;    *)
(*   - pkg/util/consts     : ExtractInt / ExtractString, the walker over a *)
(*     file's constant groups, with expandRHS, evalIntConst and            *)
(*     evalStringConst.                                                    *)
(* The specifications share the variables:                                 *)
(*   Spec         calls of the registry API made one after another;        *)
(*   SpecCaller   Spec, with a caller that uses the map Codes() returned;  *)
(*   SpecIsCode   IsCode applied to an error chain and a code;             *)
(*   SpecConc     goroutines running the registry functions statement by   *)
(*                statement, with the mutex;                               *)
(*   SpecExtract  one run of ExtractInt or ExtractString over a file.      *)
(***************************************************************************)
EXTENDS Integers, Sequences, FiniteSets, TLC

VARIABLES
    codes,          \* code.go:77  var codes = map[int]Coder{}
    lastRegistered, \* history (Spec): code -> the Coder of the latest Register call that stored it
    call,           \* history: the latest API call, its arguments and its outcome
    leaked,         \* TRUE once Codes() has handed the map itself to a caller
    mu,             \* code.go:78  var mu sync.Mutex: 0 = unlocked, else the holding goroutine
    pc,             \* per goroutine: the statement it is at
    arg,            \* per goroutine: the Coder it registers, or the code it looks up
    got,            \* per goroutine: what ParseCoder's map lookup produced
    fn,             \* which extractor runs: "ExtractInt" or "ExtractString"
    file,           \* file.Decls of the parsed source file
    di,             \* index of the declaration the outer loop is at
    si,             \* index of the spec the inner loop is at
    lineIota,       \* consts: lineIota
    prevRHS,        \* consts: prevRHS
    out,            \* ExtractInt's result map
    outStr,         \* ExtractString's result map
    lastEval,       \* history: the latest spec evaluated and the placeholder it was given
    xpc,            \* the extractor's position: "decl", "spec", "done", "panicked"
    parse,          \* the parse function handed to ExtractComment
    join,           \* MustRegisterCode: its position, its three maps, the symbols left
    app             \* a function of pkg/util/consts applied on its own: input and result

regVars  == <<codes, lastRegistered, call, leaked>>
concVars == <<mu, pc, arg, got>>
walkVars == <<fn, file, di, si, lineIota, prevRHS, out, outStr, lastEval, xpc, parse, join>>
exVars   == <<fn, file, di, si, lineIota, prevRHS, out, outStr, lastEval, xpc, parse, join, app>>
vars     == <<codes, lastRegistered, call, leaked, mu, pc, arg, got,
              fn, file, di, si, lineIota, prevRHS, out, outStr, lastEval, xpc, parse, join,
              app>>

----------------------------------------------------------------------------
(* Bounds of the model *)

\* codes used as map keys and in errors: 0..MaxCode
MaxCode == 2
\* longest error chain handed to ParseCoder
MaxChain == 2
\* longest error chain handed to IsCode
MaxDepth == 3
\* goroutines of SpecConc
NumProcs == 2
\* width of Go's int in the model (64 in the program; TLC's integers have 32 bits)
IntBits == 8
\* specs in a source file handed to the extractors
MaxSpecs == 3

----------------------------------------------------------------------------
(* Maps (Go map[int]Coder, map[string]int) as functions with a finite domain *)

EmptyMap == <<>>

PutKeepFirst(m, k, v) ==
    [x \in (DOMAIN m) \cup {k} |-> IF x \in DOMAIN m THEN m[x] ELSE v]
Put(m, k, v) == [x \in (DOMAIN m) \cup {k} |-> IF x = k THEN v ELSE m[x]]

Remove(m, k) == [x \in (DOMAIN m) \ {k} |-> m[x]]

----------------------------------------------------------------------------
(* pkg/serrors/code.go *)

\* type Code struct { C, HTTP int; Ext, Ref string }
Code(c, http, ext, ref) == [C |-> c, HTTP |-> http, Ext |-> ext, Ref |-> ref]

unknownCoder ==
    Code(1, 500, "An internal server error occurred",
         "http://github.com/strayca7/pkg/serrors/README.md")

\* the Coders callers register
Coders == {Code(c, h, "x", "") : c \in 0..MaxCode, h \in {0, 404}}

\* A Coder interface value: <<>> is nil, <<c>> holds c.
NilCoder == <<>>
Some(c) == <<c>>

\* An error is the sequence of the links of its chain, outermost first; <<>> is
\* the nil error.  A link is a *withCode (code, cause = the rest of the chain)
\* or any other error wrapping the rest.
withCode(c) == [withCode |-> TRUE, code |-> c]
plainErr == [withCode |-> FALSE, code |-> 0]
Links == {plainErr} \cup {withCode(c) : c \in 0..MaxCode}

SeqsUpTo(S, n) == UNION {[1..k -> S] : k \in 0..n}
Errs == SeqsUpTo(Links, MaxChain)

\* errors.As(err, &wc): the first *withCode of the chain; 0 when there is none.
As(err) ==
    IF \E i \in 1..Len(err) : err[i].withCode
    THEN CHOOSE i \in 1..Len(err) :
            err[i].withCode /\ \A j \in 1..(i - 1) : ~err[j].withCode
    ELSE 0

\* wc.cause of the link at i
Cause(err, i) == SubSeq(err, i + 1, Len(err))

\* Register / MustRegister: the reserved-code check before the lock
ReservedPanicNever(coder) == FALSE
ReservedPanic(coder) == coder.C = 0

\* MustRegister: `if _, ok := codes[coder.Code()]; ok { panic }`
ExistsPanicNever(cds, coder) == FALSE
ExistsPanic(cds, coder) == coder.C \in DOMAIN cds

\* codes[coder.Code()] = coder
StoreIfAbsent(cds, coder) == IF coder.C \in DOMAIN cds THEN cds ELSE Put(cds, coder.C, coder)
Store(cds, coder) == Put(cds, coder.C, coder)

ParseCoderAnyRegistered(cds, err) ==
    IF err = <<>> THEN NilCoder
    ELSE IF \E i \in 1..Len(err) : err[i].withCode /\ err[i].code \in DOMAIN cds
         THEN LET i == CHOOSE i \in 1..Len(err) :
                          /\ err[i].withCode /\ err[i].code \in DOMAIN cds
                          /\ \A j \in 1..(i - 1) :
                                 ~(err[j].withCode /\ err[j].code \in DOMAIN cds)
              IN  Some(cds[err[i].code])
         ELSE Some(unknownCoder)
ParseCoderStoredUnknown(cds, err) ==
    IF err = <<>> THEN NilCoder
    ELSE IF As(err) # 0 /\ err[As(err)].code \in DOMAIN cds
         THEN Some(cds[err[As(err)].code])
         ELSE Some(cds[1])
ParseCoder(cds, err) ==
    IF err = <<>> THEN NilCoder
    ELSE IF As(err) # 0 /\ err[As(err)].code \in DOMAIN cds
         THEN Some(cds[err[As(err)].code])
         ELSE Some(unknownCoder)

IsCodeTopOnly(err, code) == As(err) # 0 /\ err[As(err)].code = code
RECURSIVE IsCode(_, _)
IsCode(err, code) ==
    IF As(err) # 0
    THEN IF err[As(err)].code = code THEN TRUE
         ELSE IF Cause(err, As(err)) # <<>> THEN IsCode(Cause(err, As(err)), code)
         ELSE FALSE
    ELSE FALSE

\* func init() { codes[unknownCoder.Code()] = unknownCoder }
InitCodes == Put(EmptyMap, unknownCoder.C, unknownCoder)

\* func (coder Code) HTTPStatus() int
HTTPStatus(coder) == IF coder.HTTP = 0 THEN 500 ELSE coder.HTTP

----------------------------------------------------------------------------
(* Spec: the registry's API, one whole call per step *)

NoCoder == Code(0, 0, "", "")

Called(op, coder, err, code, panicked, res, ok, pre) ==
    [op |-> op, coder |-> coder, err |-> err, code |-> code,
     panicked |-> panicked, res |-> res, ok |-> ok, pre |-> pre]

ConcIdle ==
    /\ mu = 0
    /\ pc = [p \in 1..NumProcs |-> "idle"]
    /\ arg = [p \in 1..NumProcs |-> NoCoder]
    /\ got = [p \in 1..NumProcs |-> NilCoder]

NoApp == [f |-> "none"]
NoJoin == [pc |-> "none"]

WalkerIdle ==
    /\ fn = "none"
    /\ file = <<>>
    /\ di = 0
    /\ si = 0
    /\ lineIota = 0
    /\ prevRHS = <<>>
    /\ out = EmptyMap
    /\ outStr = EmptyMap
    /\ lastEval = [decl |-> 0, spec |-> 0, iota |-> 0, before |-> EmptyMap]
    /\ xpc = "idle"
    /\ parse = "none"
    /\ join = NoJoin

ExtractIdle == WalkerIdle /\ app = NoApp

RegistryInit ==
    /\ codes = InitCodes
    /\ lastRegistered = EmptyMap
    /\ call = Called("init", NoCoder, <<>>, 0, FALSE, NilCoder, FALSE, InitCodes)
    /\ leaked = FALSE

Init == RegistryInit /\ ConcIdle /\ ExtractIdle

\* func Register(coder Coder)
Register(coder) ==
    /\ IF ReservedPanic(coder)
       THEN /\ codes' = codes
            /\ lastRegistered' = lastRegistered
            /\ call' = Called("Register", coder, <<>>, 0, TRUE, NilCoder, FALSE, codes)
       ELSE /\ codes' = Store(codes, coder)
            /\ lastRegistered' = Put(lastRegistered, coder.C, coder)
            /\ call' = Called("Register", coder, <<>>, 0, FALSE, NilCoder, FALSE, codes)
    /\ UNCHANGED <<leaked, concVars, exVars>>

\* func MustRegister(coder Coder)
MustRegister(coder) ==
    /\ IF ReservedPanic(coder) \/ ExistsPanic(codes, coder)
       THEN /\ codes' = codes
            /\ call' = Called("MustRegister", coder, <<>>, 0, TRUE, NilCoder, FALSE, codes)
       ELSE /\ codes' = Store(codes, coder)
            /\ call' = Called("MustRegister", coder, <<>>, 0, FALSE, NilCoder, FALSE, codes)
    /\ UNCHANGED <<lastRegistered, leaked, concVars, exVars>>

\* func ParseCoder(err error) Coder
CallParseCoder(err) ==
    /\ call' = Called("ParseCoder", NoCoder, err, 0, FALSE, ParseCoder(codes, err), FALSE, codes)
    /\ UNCHANGED <<codes, lastRegistered, leaked, concVars, exVars>>

\* func Codes() map[int]Coder { return codes }: the caller now holds the map itself
CallCodes ==
    /\ leaked' = TRUE
    /\ call' = Called("Codes", NoCoder, <<>>, 0, FALSE, NilCoder, FALSE, codes)
    /\ UNCHANGED <<codes, lastRegistered, concVars, exVars>>

Next ==
    \/ \E coder \in Coders : Register(coder)
    \/ \E coder \in Coders : MustRegister(coder)
    \/ \E err \in Errs : CallParseCoder(err)
    \/ CallCodes

Spec == Init /\ [][Next]_vars

----------------------------------------------------------------------------
(* SpecCaller: Spec, and a caller using the map that Codes() returned.  A Go map
   value is a reference: m := Codes(); m[k] = v and delete(m, k) act on `codes`. *)

CallerAssign(coder) ==
    /\ leaked
    /\ codes' = Put(codes, coder.C, coder)
    /\ call' = Called("caller: m[k] = v", coder, <<>>, 0, FALSE, NilCoder, FALSE, codes)
    /\ UNCHANGED <<lastRegistered, leaked, concVars, exVars>>

CallerDelete(code) ==
    /\ leaked
    /\ code \in DOMAIN codes
    /\ codes' = Remove(codes, code)
    /\ call' = Called("caller: delete(m, k)", NoCoder, <<>>, code, FALSE, NilCoder, FALSE, codes)
    /\ UNCHANGED <<lastRegistered, leaked, concVars, exVars>>

NextCaller ==
    \/ Next
    \/ \E coder \in Coders : CallerAssign(coder)
    \/ \E code \in 0..MaxCode : CallerDelete(code)

SpecCaller == Init /\ [][NextCaller]_vars

----------------------------------------------------------------------------
(* SpecIsCode: IsCode applied to every error chain up to MaxDepth *)

DeepErrs == SeqsUpTo(Links, MaxDepth)

InitIsCode ==
    /\ codes = InitCodes
    /\ lastRegistered = EmptyMap
    /\ leaked = FALSE
    /\ \E err \in DeepErrs, code \in 0..MaxCode :
          call = Called("input", NoCoder, err, code, FALSE, NilCoder, FALSE, InitCodes)
    /\ ConcIdle /\ ExtractIdle

\* func IsCode(err error, code int) bool
CallIsCode ==
    /\ call.op = "input"
    /\ call' = [call EXCEPT !.op = "IsCode", !.ok = IsCode(call.err, call.code)]
    /\ UNCHANGED <<codes, lastRegistered, leaked, concVars, exVars>>

NextIsCode == CallIsCode

SpecIsCode == InitIsCode /\ [][NextIsCode]_vars

----------------------------------------------------------------------------
(* SpecConc: goroutines that each make one call of Register, MustRegister,
   ParseCoder, IsCode or Codes, concurrently, one statement per step.  pc[p] is
   the statement goroutine p is at:
     "idle"          not in a call
     "reg_lock"      Register, at mu.Lock()
     "reg_store"     Register, at codes[coder.Code()] = coder, holding mu
     "must_lock"     MustRegister, at mu.Lock()
     "must_check"    MustRegister, at the existence test, holding mu
     "must_store"    MustRegister, at codes[coder.Code()] = coder, holding mu
     "unlock"        the deferred mu.Unlock() of a call that returns
     "panic_unlock"  the deferred mu.Unlock() of a call that panics
     "parse_lookup"  ParseCoder, at codes[wc.code]
     "done"          the call returned
     "panicked"      the call panicked
     "fatal"         the runtime stopped the process                         *)

Procs == 1..NumProcs

\* a code to look up, carried in arg like a Coder
Key(c) == Code(c, 0, "", "")

InitConc ==
    /\ RegistryInit
    /\ ConcIdle
    /\ ExtractIdle

\* the errors handed to ParseCoder: nil, and the chains of one link
ConcErrs == {<<>>} \cup {<<l>> : l \in Links}

Alive == \A q \in Procs : pc[q] # "fatal"

\* Register: `if coder.Code() == 0 { panic(...) }`
RegisterEnter(p, coder) ==
    /\ Alive /\ pc[p] = "idle"
    /\ pc' = [pc EXCEPT ![p] = IF ReservedPanic(coder) THEN "panicked" ELSE "reg_lock"]
    /\ arg' = [arg EXCEPT ![p] = coder]
    /\ UNCHANGED <<mu, got, regVars, exVars>>

\* MustRegister: `if coder.Code() == 0 { panic(...) }`
MustRegisterEnter(p, coder) ==
    /\ Alive /\ pc[p] = "idle"
    /\ pc' = [pc EXCEPT ![p] = IF ReservedPanic(coder) THEN "panicked" ELSE "must_lock"]
    /\ arg' = [arg EXCEPT ![p] = coder]
    /\ UNCHANGED <<mu, got, regVars, exVars>>

MuLockNoWait(p) ==
    /\ Alive /\ pc[p] \in {"reg_lock", "must_lock"}
    /\ mu' = p
    /\ pc' = [pc EXCEPT ![p] = IF pc[p] = "reg_lock" THEN "reg_store" ELSE "must_check"]
    /\ UNCHANGED <<arg, got, regVars, exVars>>

\* mu.Lock()
MuLock(p) ==
    /\ Alive /\ pc[p] \in {"reg_lock", "must_lock"}
    /\ mu = 0
    /\ mu' = p
    /\ pc' = [pc EXCEPT ![p] = IF pc[p] = "reg_lock" THEN "reg_store" ELSE "must_check"]
    /\ UNCHANGED <<arg, got, regVars, exVars>>

\* MustRegister: `if _, ok := codes[coder.Code()]; ok { panic(...) }`
MustRegisterCheck(p) ==
    /\ Alive /\ pc[p] = "must_check"
    /\ pc' = [pc EXCEPT ![p] = IF ExistsPanic(codes, arg[p]) THEN "panic_unlock"
                                ELSE "must_store"]
    /\ UNCHANGED <<mu, arg, got, regVars, exVars>>

\* codes[coder.Code()] = coder
StoreStep(p) ==
    /\ Alive /\ pc[p] \in {"reg_store", "must_store"}
    /\ codes' = Store(codes, arg[p])
    /\ pc' = [pc EXCEPT ![p] = "unlock"]
    /\ UNCHANGED <<mu, arg, got, lastRegistered, call, leaked, exVars>>

\* defer mu.Unlock()
MuUnlock(p) ==
    /\ Alive /\ pc[p] \in {"unlock", "panic_unlock"}
    /\ mu' = 0
    /\ pc' = [pc EXCEPT ![p] = IF pc[p] = "unlock" THEN "done" ELSE "panicked"]
    /\ UNCHANGED <<arg, got, regVars, exVars>>

\* ParseCoder up to the map lookup: the nil test and errors.As
ParseCoderEnter(p, err) ==
    /\ Alive /\ pc[p] = "idle"
    /\ IF err # <<>> /\ As(err) # 0
       THEN /\ pc' = [pc EXCEPT ![p] = "parse_lookup"]
            /\ arg' = [arg EXCEPT ![p] = Key(err[As(err)].code)]
            /\ got' = got
       ELSE /\ pc' = [pc EXCEPT ![p] = "done"]
            /\ arg' = arg
            /\ got' = [got EXCEPT ![p] = ParseCoder(codes, err)]
    /\ UNCHANGED <<mu, regVars, exVars>>

\* what `codes[k]` then yields: the entry, or unknownCoder when there is none
Lookup(cds, k) == IF k \in DOMAIN cds THEN Some(cds[k]) ELSE Some(unknownCoder)

\* ParseCoder: `if coder, ok := codes[wc.code]; ok`, taken without mu.  A lookup
\* that overlaps another goroutine's store is a data race on the map: the
\* lookup sees the map before or after the store, or the runtime stops the
\* process ("concurrent map read and map write").
ParseCoderLookup(p) ==
    /\ Alive /\ pc[p] = "parse_lookup"
    /\ LET writers == {w \in Procs : pc[w] \in {"reg_store", "must_store"}}
           seen == {Lookup(codes, arg[p].C)}
                   \cup {Lookup(Store(codes, arg[w]), arg[p].C) : w \in writers}
       IN  \/ \E r \in seen :
                 /\ got' = [got EXCEPT ![p] = r]
                 /\ pc' = [pc EXCEPT ![p] = "done"]
           \/ /\ writers # {}
              /\ got' = got
              /\ pc' = [pc EXCEPT ![p] = "fatal"]
    /\ UNCHANGED <<mu, arg, regVars, exVars>>

\* IsCode: no access to codes or mu
IsCodeRun(p) ==
    /\ Alive /\ pc[p] = "idle"
    /\ pc' = [pc EXCEPT ![p] = "done"]
    /\ UNCHANGED <<mu, arg, got, regVars, exVars>>

\* Codes: returns the map, without mu
CodesRun(p) ==
    /\ Alive /\ pc[p] = "idle"
    /\ leaked' = TRUE
    /\ pc' = [pc EXCEPT ![p] = "done"]
    /\ UNCHANGED <<mu, arg, got, codes, lastRegistered, call, exVars>>

NextConc ==
    \E p \in Procs :
        \/ \E coder \in Coders : RegisterEnter(p, coder)
        \/ \E coder \in Coders : MustRegisterEnter(p, coder)
        \/ MuLock(p)
        \/ MustRegisterCheck(p)
        \/ StoreStep(p)
        \/ MuUnlock(p)
        \/ \E err \in ConcErrs : ParseCoderEnter(p, err)
        \/ ParseCoderLookup(p)
        \/ IsCodeRun(p)
        \/ CodesRun(p)

SpecConc == InitConc /\ [][NextConc]_vars

\* SpecMust: goroutines that all call MustRegister
NextMust ==
    \E p \in Procs :
        \/ \E coder \in Coders : MustRegisterEnter(p, coder)
        \/ MuLock(p)
        \/ MustRegisterCheck(p)
        \/ StoreStep(p)
        \/ MuUnlock(p)

SpecMust == InitConc /\ [][NextMust]_vars

----------------------------------------------------------------------------
(* pkg/util/consts: the expression evaluators *)

\* go/ast expressions.  text is a literal's source text, one character per
\* element; args are the operands.
Node(k, op, name, kind, text, args) ==
    [k |-> k, op |-> op, name |-> name, kind |-> kind, text |-> text, args |-> args]

NilExpr == Node("nil", "", "", "", <<>>, <<>>)
Ident(name) == Node("Ident", "", name, "", <<>>, <<>>)
BasicLit(kind, text) == Node("BasicLit", "", "", kind, text, <<>>)
ParenExpr(x) == Node("ParenExpr", "", "", "", <<>>, <<x>>)
UnaryExpr(op, x) == Node("UnaryExpr", op, "", "", <<>>, <<x>>)
BinaryExpr(x, op, y) == Node("BinaryExpr", op, "", "", <<>>, <<x, y>>)
CallExpr(name) == Node("CallExpr", "", name, "", <<>>, <<>>)

\* Go's int: IntBits wide, two's complement
MinInt == -(2 ^ (IntBits - 1))
MaxInt == (2 ^ (IntBits - 1)) - 1
Wrap(x) == ((x - MinInt) % (2 ^ IntBits)) + MinInt

\* uint64(x) and int(u)
ToUnsigned(x) == x % (2 ^ IntBits)
ToSigned(u) == IF u > MaxInt THEN u - (2 ^ IntBits) ELSE u

Abs(x) == IF x < 0 THEN -x ELSE x

\* Go's / and %: the quotient truncated toward zero
Quo(a, b) ==
    Wrap(IF (a < 0) = (b < 0) THEN Abs(a) \div Abs(b) ELSE -(Abs(a) \div Abs(b)))
Rem(a, b) == IF a < 0 THEN -(Abs(a) % Abs(b)) ELSE Abs(a) % Abs(b)

\* | & ^ on the bits of two unsigned values
RECURSIVE Bitwise(_, _, _, _)
Bitwise(op, a, b, n) ==
    IF n = 0 THEN 0
    ELSE LET x == a % 2
             y == b % 2
             bit == CASE op = "|" -> IF x + y > 0 THEN 1 ELSE 0
                      [] op = "&" -> x * y
                      [] op = "^" -> (x + y) % 2
         IN  bit + 2 * Bitwise(op, a \div 2, b \div 2, n - 1)

BitOp(op, a, b) == ToSigned(Bitwise(op, ToUnsigned(a), ToUnsigned(b), IntBits))

\* int(uint64(lv) << uint(rv)) and int(uint64(lv) >> uint(rv)), rv >= 0
Shl(lv, rv) ==
    IF rv >= IntBits THEN 0 ELSE ToSigned((ToUnsigned(lv) * (2 ^ rv)) % (2 ^ IntBits))
ShrArithmetic(lv, rv) ==
    IF rv >= IntBits THEN (IF lv < 0 THEN -1 ELSE 0) ELSE lv \div (2 ^ rv)
Shr(lv, rv) ==
    IF rv >= IntBits THEN 0 ELSE ToSigned(ToUnsigned(lv) \div (2 ^ rv))

\* strconv.ParseInt(s, 0, IntBits): an optional sign, a base prefix (0x, 0b, 0o,
\* 0), digits with underscores; an error for a malformed text or a value out of
\* range.
DigitVal(c) ==
    CASE c = "0" -> 0 [] c = "1" -> 1 [] c = "2" -> 2 [] c = "3" -> 3
      [] c = "4" -> 4 [] c = "5" -> 5 [] c = "6" -> 6 [] c = "7" -> 7
      [] c = "8" -> 8 [] c = "9" -> 9 [] c = "a" -> 10 [] c = "b" -> 11
      [] c = "c" -> 12 [] c = "d" -> 13 [] c = "e" -> 14 [] c = "f" -> 15
      [] OTHER -> 99

Drop(s, n) == SubSeq(s, n + 1, Len(s))

\* the digits' value in the base, -1 when a character is no digit of the base
\* or the value passes limit
RECURSIVE Digits(_, _, _, _)
Digits(s, base, acc, limit) ==
    IF s = <<>> THEN acc
    ELSE IF s[1] = "_" THEN Digits(Drop(s, 1), base, acc, limit)
    ELSE IF DigitVal(s[1]) >= base THEN -1
    ELSE IF acc * base + DigitVal(s[1]) > limit THEN -1
    ELSE Digits(Drop(s, 1), base, acc * base + DigitVal(s[1]), limit)

ParseInt(s) ==
    LET neg == s # <<>> /\ s[1] = "-"
        t == IF s # <<>> /\ s[1] \in {"-", "+"} THEN Drop(s, 1) ELSE s
        pre == IF Len(t) >= 2 /\ t[1] = "0" THEN t[2] ELSE ""
        base == CASE pre \in {"x", "X"} -> 16
                  [] pre \in {"b", "B"} -> 2
                  [] pre \in {"o", "O"} -> 8
                  [] OTHER -> IF Len(t) >= 2 /\ t[1] = "0" THEN 8 ELSE 10
        body == IF pre \in {"x", "X", "b", "B", "o", "O"} THEN Drop(t, 2) ELSE t
        limit == IF neg THEN -MinInt ELSE MaxInt
        n == Digits(body, base, 0, limit)
        badUnderscore ==
            \/ body[1] = "_" /\ base = 10
            \/ body[Len(body)] = "_"
            \/ \E i \in 1..(Len(body) - 1) : body[i] = "_" /\ body[i + 1] = "_"
    IN  IF body = <<>> \/ badUnderscore \/ n < 0
        THEN [v |-> 0, ok |-> FALSE]
        ELSE [v |-> IF neg THEN -n ELSE n, ok |-> TRUE]

FailOk == [v |-> 0, ok |-> TRUE]
Fail == [v |-> 0, ok |-> FALSE]
Ok(v) == [v |-> v, ok |-> TRUE]

\* func evalIntConst(e ast.Expr, iotaVal int) (int, bool)
RECURSIVE evalIntConst(_, _)
evalIntConst(e, iotaVal) ==
    CASE e.k = "ParenExpr" -> evalIntConst(e.args[1], iotaVal)
      [] e.k = "Ident" -> IF e.name = "iota" THEN Ok(iotaVal) ELSE Fail
      [] e.k = "BasicLit" ->
            IF e.kind = "INT" /\ ParseInt(e.text).ok THEN Ok(ParseInt(e.text).v) ELSE Fail
      [] e.k = "UnaryExpr" ->
            IF e.op \in {"+", "-"}
            THEN LET x == evalIntConst(e.args[1], iotaVal)
                 IN  IF x.ok THEN (IF e.op = "-" THEN Ok(Wrap(-x.v)) ELSE Ok(x.v))
                     ELSE Fail
            ELSE Fail
      [] e.k = "BinaryExpr" ->
            LET l == evalIntConst(e.args[1], iotaVal)
                r == evalIntConst(e.args[2], iotaVal)
            IN  IF ~l.ok \/ ~r.ok THEN Fail
                ELSE CASE e.op = "+" -> Ok(Wrap(l.v + r.v))
                       [] e.op = "-" -> Ok(Wrap(l.v - r.v))
                       [] e.op = "*" -> Ok(Wrap(l.v * r.v))
                       [] e.op = "/" -> IF r.v = 0 THEN Fail ELSE Ok(Quo(l.v, r.v))
                       [] e.op = "%" -> IF r.v = 0 THEN Fail ELSE Ok(Rem(l.v, r.v))
                       [] e.op = "|" -> Ok(BitOp("|", l.v, r.v))
                       [] e.op = "&" -> Ok(BitOp("&", l.v, r.v))
                       [] e.op = "^" -> Ok(BitOp("^", l.v, r.v))
                       [] e.op = "<<" -> IF r.v < 0 THEN Fail ELSE Ok(Shl(l.v, r.v))
                       [] e.op = ">>" -> IF r.v < 0 THEN Fail ELSE Ok(Shr(l.v, r.v))
                       [] OTHER -> Fail
      [] OTHER -> Fail

\* The characters of a literal that have a meaning to strconv.Unquote, by name:
\* the double quote, the single quote, the back quote, the backslash, the
\* newline.
DQ == "DQ"
SQ == "SQ"
BQ == "BQ"
BS == "BS"
LF == "LF"

\* strconv.Unquote(s): s is a quoted Go literal, one character per element.
\* Inside double and single quotes a backslash starts an escape; of the
\* escapes, those over the model's alphabet are: backslash n, backslash
\* backslash, and backslash followed by the literal's own quote.
RECURSIVE Unescape(_, _)
Unescape(body, quote) ==
    IF body = <<>> THEN [s |-> <<>>, ok |-> TRUE]
    ELSE IF body[1] = quote \/ body[1] = LF THEN [s |-> <<>>, ok |-> FALSE]
    ELSE IF body[1] = BS
         THEN IF Len(body) < 2 \/ body[2] \notin {"n", BS, quote}
              THEN [s |-> <<>>, ok |-> FALSE]
              ELSE LET rest == Unescape(Drop(body, 2), quote)
                       c == IF body[2] = "n" THEN LF ELSE body[2]
                   IN  [s |-> <<c>> \o rest.s, ok |-> rest.ok]
         ELSE LET rest == Unescape(Drop(body, 1), quote)
              IN  [s |-> <<body[1]>> \o rest.s, ok |-> rest.ok]

UnquoteStripOnly(s) == [s |-> SubSeq(s, 2, Len(s) - 1), ok |-> TRUE]
Unquote(s) ==
    IF Len(s) < 2 \/ s[1] # s[Len(s)] \/ s[1] \notin {DQ, SQ, BQ}
    THEN [s |-> <<>>, ok |-> FALSE]
    ELSE LET body == SubSeq(s, 2, Len(s) - 1)
         IN  IF s[1] = BQ
             THEN [s |-> body, ok |-> \A i \in 1..Len(body) : body[i] # BQ]
             ELSE LET u == Unescape(body, s[1])
                  IN  IF s[1] = SQ /\ Len(u.s) # 1 THEN [s |-> <<>>, ok |-> FALSE] ELSE u

FailStrOk == [v |-> <<>>, ok |-> TRUE]
FailStr == [v |-> <<>>, ok |-> FALSE]

\* func evalStringConst(e ast.Expr, _ int) (string, bool)
RECURSIVE evalStringConst(_, _)
evalStringConst(e, iotaVal) ==
    CASE e.k = "ParenExpr" -> evalStringConst(e.args[1], 0)
      [] e.k = "BasicLit" ->
            IF e.kind \in {"STRING", "CHAR"}
            THEN IF Unquote(e.text).ok THEN Ok(Unquote(e.text).s) ELSE Ok(e.text)
            ELSE FailStr
      [] e.k = "BinaryExpr" ->
            IF e.op = "+"
            THEN LET l == evalStringConst(e.args[1], 0)
                     r == evalStringConst(e.args[2], 0)
                 IN  IF l.ok /\ r.ok THEN Ok(l.v \o r.v) ELSE FailStr
            ELSE FailStr
      [] e.k = "Ident" -> FailStr
      [] OTHER -> FailStr

----------------------------------------------------------------------------
(* pkg/util/consts: ExtractInt and ExtractString *)

\* func expandRHS(rhs []ast.Expr, n int) []ast.Expr
expandRHSRepeatFirst(rhs, n) ==
    [i \in 1..n |-> IF Len(rhs) = 0 THEN NilExpr
                    ELSE IF i <= Len(rhs) THEN rhs[i] ELSE rhs[1]]
expandRHSNoRepeat(rhs, n) ==
    [i \in 1..n |-> IF i <= Len(rhs) THEN rhs[i] ELSE NilExpr]
expandRHS(rhs, n) ==
    IF n = 0 THEN <<>>
    ELSE IF Len(rhs) = 0 THEN [i \in 1..n |-> NilExpr]
    ELSE [i \in 1..n |-> IF i <= Len(rhs) THEN rhs[i] ELSE rhs[Len(rhs)]]

\* `rhs := vs.Values; if len(rhs) == 0 { rhs = prevRHS } else { prevRHS = rhs }`
rhsOf(values, prev) == IF Len(values) = 0 THEN prev ELSE values
prevRHSAfter(values, prev) == IF Len(values) = 0 THEN prev ELSE values

\* `lineIota := 0` and `var prevRHS []ast.Expr` at the start of a const block
lineIotaAtBlock(iotaVal) == 0
prevRHSKept(prev) == prev
prevRHSAtBlock(prev) == <<>>

\* `lineIota++` at the end of a spec
lineIotaPerName(iotaVal, vs) == iotaVal + Len(vs.names)
lineIotaNext(iotaVal, vs) == iotaVal + 1

\* `for i, name := range vs.Names { ... out[name.Name] = v }` from name i on
RECURSIVE assignIntsStopAtGap(_, _, _, _, _)
assignIntsStopAtGap(o, names, expanded, i, iotaVal) ==
    IF i > Len(names) THEN o
    ELSE IF expanded[i] = NilExpr
         THEN assignIntsStopAtGap(o, names, expanded, i + 1, iotaVal)
    ELSE LET r == evalIntConst(expanded[i], iotaVal)
         IN  IF r.ok
             THEN assignIntsStopAtGap(Put(o, names[i], r.v), names, expanded, i + 1, iotaVal)
             ELSE o

RECURSIVE assignInts(_, _, _, _, _)
assignInts(o, names, expanded, i, iotaVal) ==
    IF i > Len(names) THEN o
    ELSE IF expanded[i] = NilExpr THEN assignInts(o, names, expanded, i + 1, iotaVal)
    ELSE LET r == evalIntConst(expanded[i], iotaVal)
         IN  assignInts(IF r.ok THEN Put(o, names[i], r.v) ELSE o,
                        names, expanded, i + 1, iotaVal)

RECURSIVE assignStrings(_, _, _, _, _)
assignStrings(o, names, expanded, i, iotaVal) ==
    IF i > Len(names) THEN o
    ELSE IF expanded[i] = NilExpr THEN assignStrings(o, names, expanded, i + 1, iotaVal)
    ELSE LET r == evalStringConst(expanded[i], iotaVal)
         IN  assignStrings(IF r.ok THEN Put(o, names[i], r.v) ELSE o,
                           names, expanded, i + 1, iotaVal)

\* the source files: a file is file.Decls, a declaration is its token and its
\* specs, a spec is its names and its values
ValueSpec(names, values) == [names |-> names, values |-> values]
GenDecl(tok, specs) == [tok |-> tok, specs |-> specs]

IntLit(n) == BasicLit("INT", n)
IotaPlus10 == BinaryExpr(Ident("iota"), "+", IntLit(<<"1", "0">>))
TenOverIota == BinaryExpr(IntLit(<<"1", "0">>), "/", Ident("iota"))
StrK == BasicLit("STRING", <<DQ, "k", DQ>>)

SpecPool ==
    { ValueSpec(<<"A">>, <<IotaPlus10>>),
      ValueSpec(<<"B">>, <<>>),
      ValueSpec(<<"C">>, <<>>),
      ValueSpec(<<"A", "B">>, <<TenOverIota>>),
      ValueSpec(<<"A", "B">>, <<TenOverIota, IotaPlus10>>),
      ValueSpec(<<"B", "C">>, <<>>),
      ValueSpec(<<"C">>, <<StrK>>) }

\* One element of a file's text: a spec that continues the const block before
\* it, a spec that opens a new const block, or a var declaration.
Items ==
    {[spec |-> vs, how |-> h] : vs \in SpecPool, h \in {"same", "const"}}
        \cup {[spec |-> ValueSpec(<<"A">>, <<IntLit(<<"5">>)>>), how |-> "var"]}

RECURSIVE Decls(_)
Decls(items) ==
    IF items = <<>> THEN <<>>
    ELSE LET before == Decls(SubSeq(items, 1, Len(items) - 1))
             it == items[Len(items)]
         IN  IF it.how = "same" /\ before # <<>> /\ before[Len(before)].tok = "const"
             THEN [before EXCEPT ![Len(before)].specs = Append(@, it.spec)]
             ELSE Append(before, GenDecl(IF it.how = "var" THEN "var" ELSE "const",
                                         <<it.spec>>))

Files == {Decls(items) : items \in SeqsUpTo(Items, MaxSpecs)}

InitExtract ==
    /\ RegistryInit
    /\ ConcIdle
    /\ fn \in {"ExtractInt", "ExtractString"}
    /\ file \in Files
    /\ di = 1
    /\ si = 0
    /\ lineIota = 0
    /\ prevRHS = <<>>
    /\ out = EmptyMap
    /\ outStr = EmptyMap
    /\ lastEval = [decl |-> 0, spec |-> 0, iota |-> 0, before |-> EmptyMap]
    /\ xpc = "decl"
    /\ parse = "none"
    /\ join = NoJoin
    /\ app = NoApp

\* `if !ok || gen.Tok != token.CONST { continue }`
SkipDecl ==
    /\ xpc = "decl" /\ di <= Len(file)
    /\ file[di].tok # "const"
    /\ di' = di + 1
    /\ UNCHANGED <<fn, file, si, lineIota, prevRHS, out, outStr, lastEval, xpc,
                   regVars, concVars, app, parse,
                   join>>

\* a const block: lineIota and prevRHS start afresh
EnterBlock ==
    /\ fn \in {"ExtractInt", "ExtractString"}
    /\ xpc = "decl" /\ di <= Len(file)
    /\ file[di].tok = "const"
    /\ lineIota' = lineIotaAtBlock(lineIota)
    /\ prevRHS' = prevRHSAtBlock(prevRHS)
    /\ si' = 1
    /\ xpc' = "spec"
    /\ UNCHANGED <<fn, file, di, out, outStr, lastEval, regVars, concVars, app, parse,
                   join>>

\* one iteration of `for _, spec := range gen.Specs`
EvalSpec ==
    /\ fn \in {"ExtractInt", "ExtractString"}
    /\ xpc = "spec" /\ si <= Len(file[di].specs)
    /\ LET vs == file[di].specs[si]
           rhs == rhsOf(vs.values, prevRHS)
           expanded == expandRHS(rhs, Len(vs.names))
       IN  /\ prevRHS' = prevRHSAfter(vs.values, prevRHS)
           /\ IF fn = "ExtractInt"
              THEN /\ out' = assignInts(out, vs.names, expanded, 1, lineIota)
                   /\ outStr' = outStr
              ELSE /\ outStr' = assignStrings(outStr, vs.names, expanded, 1, lineIota)
                   /\ out' = out
           /\ lastEval' = [decl |-> di, spec |-> si, iota |-> lineIota,
                           before |-> IF fn = "ExtractInt" THEN out ELSE outStr]
           /\ lineIota' = lineIotaNext(lineIota, vs)
    /\ si' = si + 1
    /\ UNCHANGED <<fn, file, di, xpc, regVars, concVars, app, parse,
                   join>>

\* the block's specs are exhausted: on to the next declaration
LeaveBlock ==
    /\ xpc = "spec" /\ si > Len(file[di].specs)
    /\ di' = di + 1
    /\ xpc' = "decl"
    /\ UNCHANGED <<fn, file, si, lineIota, prevRHS, out, outStr, lastEval,
                   regVars, concVars, app, parse,
                   join>>

\* `return out, nil`
ReturnOut ==
    /\ xpc = "decl" /\ di > Len(file)
    /\ xpc' = "done"
    /\ UNCHANGED <<fn, file, di, si, lineIota, prevRHS, out, outStr, lastEval,
                   regVars, concVars, app, parse,
                   join>>

NextExtract == SkipDecl \/ EnterBlock \/ EvalSpec \/ LeaveBlock \/ ReturnOut

SpecExtract == InitExtract /\ [][NextExtract]_vars

-----------------------------------------------------------------------------
(* SpecExpand: expandRHS applied on its own to an expression list of up to
   MaxExprs expressions and a number of names up to MaxNames. *)

MaxExprs == 3
MaxNames == 4

ExprPool == {IotaPlus10, TenOverIota, StrK}

InitExpand ==
    /\ RegistryInit /\ ConcIdle /\ WalkerIdle
    /\ \E rhs \in SeqsUpTo(ExprPool, MaxExprs), n \in 0..MaxNames :
          app = [f |-> "input", rhs |-> rhs, n |-> n, res |-> <<>>]

CallExpandRHS ==
    /\ app.f = "input"
    /\ app' = [app EXCEPT !.f = "expandRHS", !.res = expandRHS(app.rhs, app.n)]
    /\ UNCHANGED <<regVars, concVars, walkVars>>

NextExpand == CallExpandRHS

SpecExpand == InitExpand /\ [][NextExpand]_vars

-----------------------------------------------------------------------------
(* SpecEvalInt: evalIntConst applied on its own to an expression and a
   placeholder value up to MaxIota. *)

MaxIota == 2

\* the source text of the decimal literal of n, n >= 0
DigitChar(d) == <<"0", "1", "2", "3", "4", "5", "6", "7", "8", "9">>[d + 1]
RECURSIVE Decimal(_)
Decimal(n) ==
    IF n < 10 THEN <<DigitChar(n)>> ELSE Append(Decimal(n \div 10), DigitChar(n % 10))

\* integer literals: small values, the width of int and its neighbours, the
\* largest int and the number after it, and the other bases and the
\* underscore of Go's literal grammar
IntTexts ==
    {Decimal(n) : n \in {0, 1, 2, IntBits - 1, IntBits, MaxInt, MaxInt + 1}}
        \cup {<<"0", "x", "f">>, <<"0", "1", "0">>, <<"1", "_", "0">>}

IntAtoms == {IntLit(t) : t \in IntTexts} \cup {Ident("iota")}

\* what evalIntConst has no case for
OtherAtoms ==
    {Ident("x"), CallExpr("f"), BasicLit("FLOAT", <<"1", ".", "5">>), StrK, NilExpr}

\* -MaxInt - 1, the smallest int
MinIntExpr ==
    BinaryExpr(UnaryExpr("-", IntLit(Decimal(MaxInt))), "-", IntLit(Decimal(1)))

Operands ==
    IntAtoms \cup OtherAtoms
        \cup {UnaryExpr(op, a) : op \in {"+", "-"}, a \in IntAtoms}
        \cup {UnaryExpr("^", IntLit(Decimal(1))), UnaryExpr("-", Ident("x"))}
        \cup {ParenExpr(IntLit(Decimal(2))), ParenExpr(Ident("x")), ParenExpr(MinIntExpr)}
        \cup {MinIntExpr}

IntOps == {"+", "-", "*", "/", "%", "|", "&", "^", "<<", ">>"}

IntExprs ==
    Operands \cup {BinaryExpr(x, op, y) : x \in Operands, y \in Operands,
                                          op \in IntOps \cup {"&^"}}

InitEvalInt ==
    /\ RegistryInit /\ ConcIdle /\ WalkerIdle
    /\ \E e \in IntExprs, i \in 0..MaxIota :
          app = [f |-> "input", e |-> e, iotaVal |-> i, res |-> Fail]

CallEvalIntConst ==
    /\ app.f = "input"
    /\ app' = [app EXCEPT !.f = "evalIntConst",
                          !.res = evalIntConst(app.e, app.iotaVal)]
    /\ UNCHANGED <<regVars, concVars, walkVars>>

NextEvalInt == CallEvalIntConst

SpecEvalInt == InitEvalInt /\ [][NextEvalInt]_vars

-----------------------------------------------------------------------------
(* SpecEvalString: evalStringConst applied on its own to an expression. *)

\* string and character literals as go/parser hands them over: "k", "",
\* "a\n", "\"", `r\n`, 'c', '\''
StrEmpty == BasicLit("STRING", <<DQ, DQ>>)
StrEscN == BasicLit("STRING", <<DQ, "a", BS, "n", DQ>>)
StrEscQ == BasicLit("STRING", <<DQ, BS, DQ, DQ>>)
StrRaw == BasicLit("STRING", <<BQ, "r", BS, "n", BQ>>)
CharC == BasicLit("CHAR", <<SQ, "c", SQ>>)
CharQ == BasicLit("CHAR", <<SQ, BS, SQ, SQ>>)

StrAtoms == {StrK, StrEmpty, StrEscN, StrEscQ, StrRaw, CharC, CharQ}

\* what evalStringConst has no case for
NonStrAtoms ==
    {Ident("iota"), Ident("x"), IntLit(Decimal(1)), BasicLit("FLOAT", <<"1", ".", "5">>),
     CallExpr("f"), UnaryExpr("+", StrK), NilExpr}

StrOperands ==
    StrAtoms \cup NonStrAtoms
        \cup {ParenExpr(StrEscN), ParenExpr(Ident("iota")),
              ParenExpr(BinaryExpr(StrK, "+", CharC))}
        \cup {BinaryExpr(StrK, "+", StrEscN), BinaryExpr(StrRaw, "+", Ident("x")),
              BinaryExpr(StrK, "-", StrK)}

StrExprs ==
    StrOperands \cup {BinaryExpr(x, op, y) : x \in StrOperands, y \in StrOperands,
                                             op \in {"+", "-", "=="}}

InitEvalString ==
    /\ RegistryInit /\ ConcIdle /\ WalkerIdle
    /\ \E e \in StrExprs, i \in 0..MaxIota :
          app = [f |-> "input", e |-> e, iotaVal |-> i, res |-> FailStr]

CallEvalStringConst ==
    /\ app.f = "input"
    /\ app' = [app EXCEPT !.f = "evalStringConst",
                          !.res = evalStringConst(app.e, app.iotaVal)]
    /\ UNCHANGED <<regVars, concVars, walkVars>>

NextEvalString == CallEvalStringConst

SpecEvalString == InitEvalString /\ [][NextEvalString]_vars

-----------------------------------------------------------------------------
(* pkg/util/consts: the comment parsers.  A text is a sequence of characters. *)

\* strings.HasPrefix(s, prefix)
HasPrefix(s, prefix) ==
    Len(s) >= Len(prefix) /\ SubSeq(s, 1, Len(prefix)) = prefix

\* strings.Index(s, sep), counted from 1; 0 when sep is not in s
Index(s, sep) ==
    LET at == {i \in 1..(Len(s) - Len(sep) + 1) : SubSeq(s, i, i + Len(sep) - 1) = sep}
    IN  IF at = {} THEN 0 ELSE CHOOSE i \in at : \A j \in at : i <= j

\* strings.Split(s, sep), sep not empty
RECURSIVE Split(_, _)
Split(s, sep) ==
    LET i == Index(s, sep)
    IN  IF i = 0 THEN <<s>>
        ELSE <<SubSeq(s, 1, i - 1)>> \o Split(Drop(s, i + Len(sep) - 1), sep)

ErrPrefix == <<"E", "r", "r">>

\* a parser returns a string, or panics with an index out of range
Returned(str) == [s |-> str, panic |-> FALSE]
Panicked == [s |-> <<>>, panic |-> TRUE]

\* parts[i] of Go, i counted from 0
IndexOrPanic(parts, i) ==
    IF i + 1 > Len(parts) THEN Panicked ELSE Returned(parts[i + 1])

\* func ParseErrExternal(com string) string
ParseErrExternal(com) ==
    IF ~HasPrefix(com, ErrPrefix) THEN Returned(<<>>)
    ELSE IndexOrPanic(Split(Split(com, <<".">>)[1], <<":", " ">>), 1)

\* func ParseErrHTTPStatus(com string) string
ParseErrHTTPStatus(com) ==
    IF ~HasPrefix(com, ErrPrefix) THEN Returned(<<>>)
    ELSE IndexOrPanic(Split(Split(com, <<":">>)[1], <<" ">>), 2)

Parsers == {"ParseErrExternal", "ParseErrHTTPStatus"}

\* parse(text) for the parser of that name
Apply(parser, text) ==
    IF parser = "ParseErrExternal" THEN ParseErrExternal(text) ELSE ParseErrHTTPStatus(text)

-----------------------------------------------------------------------------
(* SpecComment: ExtractComment run on a file with one of the two parsers.
   A spec carries cmap[vs], the texts of the comment groups that
   ast.NewCommentMap attaches to it, in source order. *)

\* cg.Text() of the comment `// <Name> - <Status>: <Message>.`
Comment(name, status, message) ==
    name \o <<" ", "-", " ">> \o status \o <<":", " ">> \o message \o <<".", LF>>

DocNotFound == Comment(<<"E", "r", "r", "A">>, <<"4", "0", "4">>, <<"n", "o">>)
DocConflict == Comment(<<"E", "r", "r", "B">>, <<"4", "0", "9">>, <<"b", "e">>)
DocNoPrefix == Comment(<<"F", "o", "o">>, <<"4", "0", "4">>, <<"n", "o">>)
DocBare == <<"E", "r", "r", "C", LF>>

CommentedSpec(names, comments) ==
    [names |-> names, values |-> <<>>, comments |-> comments]

CommentedPool ==
    { CommentedSpec(<<"A">>, <<DocNotFound>>),
      CommentedSpec(<<"B", "C">>, <<DocConflict>>),
      CommentedSpec(<<"A">>, <<>>),
      CommentedSpec(<<"C">>, <<DocNotFound, DocNoPrefix>>),
      CommentedSpec(<<"B">>, <<DocBare>>) }

CommentedItems ==
    {[spec |-> vs, how |-> h] : vs \in CommentedPool, h \in {"same", "const"}}
        \cup {[spec |-> CommentedSpec(<<"A">>, <<DocConflict>>), how |-> "var"]}

CommentedFiles == {Decls(items) : items \in SeqsUpTo(CommentedItems, MaxSpecs)}

InitComment ==
    /\ RegistryInit
    /\ ConcIdle
    /\ fn = "ExtractComment"
    /\ parse \in Parsers
    /\ file \in CommentedFiles
    /\ di = 1
    /\ si = 0
    /\ lineIota = 0
    /\ prevRHS = <<>>
    /\ out = EmptyMap
    /\ outStr = EmptyMap
    /\ lastEval = [decl |-> 0, spec |-> 0, iota |-> 0, before |-> EmptyMap]
    /\ xpc = "decl"
    /\ join = NoJoin
    /\ app = NoApp

\* `for _, name := range vs.Names { out[name.Name] = comment }`
PutFirstOnly(o, names, comment) ==
    IF names = <<>> THEN o ELSE Put(o, names[1], comment)
PutAll(o, names, comment) ==
    [x \in (DOMAIN o) \cup {names[i] : i \in 1..Len(names)} |->
        IF \E i \in 1..Len(names) : names[i] = x THEN comment ELSE o[x]]

\* `for _, cg := range cmap[vs] { comment := parse(cg.Text()); ... }` from
\* comment group j on; a panic of parse ends it
RECURSIVE assignComments(_, _, _, _, _)
assignComments(o, names, comments, j, parser) ==
    IF j > Len(comments) THEN [out |-> o, panic |-> FALSE]
    ELSE LET c == Apply(parser, comments[j])
         IN  IF c.panic THEN [out |-> o, panic |-> TRUE]
             ELSE assignComments(PutAll(o, names, c.s), names, comments, j + 1, parser)

\* a const block of ExtractComment
CommentBlock ==
    /\ fn = "ExtractComment"
    /\ xpc = "decl" /\ di <= Len(file)
    /\ file[di].tok = "const"
    /\ si' = 1
    /\ xpc' = "spec"
    /\ UNCHANGED <<fn, file, di, lineIota, prevRHS, out, outStr, lastEval,
                   regVars, concVars, app, parse,
                   join>>

\* one iteration of `for _, spec := range gen.Specs` of ExtractComment
CommentSpec ==
    /\ fn = "ExtractComment"
    /\ xpc = "spec" /\ si <= Len(file[di].specs)
    /\ LET vs == file[di].specs[si]
           r == assignComments(outStr, vs.names, vs.comments, 1, parse)
       IN  /\ outStr' = r.out
           /\ xpc' = IF r.panic THEN "panicked" ELSE xpc
    /\ lastEval' = [decl |-> di, spec |-> si, iota |-> 0, before |-> outStr]
    /\ si' = si + 1
    /\ UNCHANGED <<fn, file, di, lineIota, prevRHS, out, regVars, concVars, app, parse,
                   join>>

NextComment == SkipDecl \/ CommentBlock \/ CommentSpec \/ LeaveBlock \/ ReturnOut

SpecComment == InitComment /\ [][NextComment]_vars

-----------------------------------------------------------------------------
(* SpecParse: ParseErrExternal and ParseErrHTTPStatus applied on their own to
   a comment text: one of the form `<Name> - <Status>: <Message>.` with a
   message of up to MaxMsg characters, or any short text, with and without
   the prefix Err. *)

MaxMsg == 4

MsgChars == {"a", " ", ":", "."}

ErrNames == {<<"E", "r", "r", "A">>, ErrPrefix}
Statuses == {<<"4", "0", "4">>, <<"5">>}

Formed ==
    {[com |-> Comment(n, st, m), formed |-> TRUE, status |-> st, message |-> m] :
        n \in ErrNames, st \in Statuses, m \in SeqsUpTo(MsgChars, MaxMsg)}

Unformed ==
    {[com |-> pre \o t, formed |-> FALSE, status |-> <<>>, message |-> <<>>] :
        pre \in {<<>>, ErrPrefix}, t \in SeqsUpTo(MsgChars, MaxMsg - 1)}

InitParse ==
    /\ RegistryInit /\ ConcIdle /\ WalkerIdle
    /\ \E c \in Formed \cup Unformed :
          app = [f |-> "input", in |-> c, res |-> Returned(<<>>)]

CallParseErrExternal ==
    /\ app.f = "input"
    /\ app' = [app EXCEPT !.f = "ParseErrExternal", !.res = ParseErrExternal(app.in.com)]
    /\ UNCHANGED <<regVars, concVars, walkVars>>

CallParseErrHTTPStatus ==
    /\ app.f = "input"
    /\ app' = [app EXCEPT !.f = "ParseErrHTTPStatus", !.res = ParseErrHTTPStatus(app.in.com)]
    /\ UNCHANGED <<regVars, concVars, walkVars>>

NextParse == CallParseErrExternal \/ CallParseErrHTTPStatus

SpecParse == InitParse /\ [][NextParse]_vars

-----------------------------------------------------------------------------
(* The extractors as functions of a source: what a whole call returns.  A
   source is whether parser.ParseFile accepts it, and its declarations. *)

Source(parses, decls) == [parses |-> parses, decls |-> decls]

\* what an extractor returns: the map (nil with an error), the error, and
\* whether the call panicked instead of returning
Extracted(m) == [map |-> m, nil |-> FALSE, err |-> FALSE, panic |-> FALSE]
ExtractFailedSilently == [map |-> EmptyMap, nil |-> FALSE, err |-> FALSE, panic |-> FALSE]
ExtractFailed == [map |-> EmptyMap, nil |-> TRUE, err |-> TRUE, panic |-> FALSE]
ExtractPanicked == [map |-> EmptyMap, nil |-> TRUE, err |-> FALSE, panic |-> TRUE]

\* the specs of a const block from spec k on, ExtractInt
RECURSIVE intsOfBlock(_, _, _, _, _)
intsOfBlock(o, specs, k, iotaVal, prev) ==
    IF k > Len(specs) THEN o
    ELSE LET vs == specs[k]
             expanded == expandRHS(rhsOf(vs.values, prev), Len(vs.names))
         IN  intsOfBlock(assignInts(o, vs.names, expanded, 1, iotaVal), specs, k + 1,
                         lineIotaNext(iotaVal, vs), prevRHSAfter(vs.values, prev))

\* `for _, decl := range file.Decls` from declaration d on, ExtractInt
RECURSIVE intsOfDecls(_, _, _)
intsOfDecls(o, decls, d) ==
    IF d > Len(decls) THEN o
    ELSE intsOfDecls(IF decls[d].tok = "const"
                     THEN intsOfBlock(o, decls[d].specs, 1, lineIotaAtBlock(0),
                                      prevRHSAtBlock(<<>>))
                     ELSE o,
                     decls, d + 1)

\* func ExtractInt(filePath string) (map[string]int, error)
ExtractInt(src) ==
    IF ~src.parses THEN ExtractFailed ELSE Extracted(intsOfDecls(EmptyMap, src.decls, 1))

\* the same for ExtractString
RECURSIVE stringsOfBlock(_, _, _, _, _)
stringsOfBlock(o, specs, k, iotaVal, prev) ==
    IF k > Len(specs) THEN o
    ELSE LET vs == specs[k]
             expanded == expandRHS(rhsOf(vs.values, prev), Len(vs.names))
         IN  stringsOfBlock(assignStrings(o, vs.names, expanded, 1, iotaVal), specs, k + 1,
                            lineIotaNext(iotaVal, vs), prevRHSAfter(vs.values, prev))

RECURSIVE stringsOfDecls(_, _, _)
stringsOfDecls(o, decls, d) ==
    IF d > Len(decls) THEN o
    ELSE stringsOfDecls(IF decls[d].tok = "const"
                        THEN stringsOfBlock(o, decls[d].specs, 1, lineIotaAtBlock(0),
                                            prevRHSAtBlock(<<>>))
                        ELSE o,
                        decls, d + 1)

\* func ExtractString(filePath string) (map[string]string, error)
ExtractString(src) ==
    IF ~src.parses THEN ExtractFailed
    ELSE Extracted(stringsOfDecls(EmptyMap, src.decls, 1))

\* the specs of the const blocks from declaration d, spec k on, ExtractComment;
\* r is the map so far and whether parse has panicked
RECURSIVE commentsOfDecls(_, _, _, _, _)
commentsOfDecls(r, decls, d, k, parser) ==
    IF r.panic \/ d > Len(decls) THEN r
    ELSE IF decls[d].tok # "const" \/ k > Len(decls[d].specs)
         THEN commentsOfDecls(r, decls, d + 1, 1, parser)
    ELSE LET vs == decls[d].specs[k]
         IN  commentsOfDecls(assignComments(r.out, vs.names, vs.comments, 1, parser),
                             decls, d, k + 1, parser)

\* func ExtractComment(filePath string, parse func(string) string) (map[string]string, error)
ExtractComment(src, parser) ==
    IF ~src.parses THEN ExtractFailed
    ELSE LET r == commentsOfDecls([out |-> EmptyMap, panic |-> FALSE], src.decls, 1, 1, parser)
         IN  IF r.panic THEN ExtractPanicked ELSE Extracted(r.out)

-----------------------------------------------------------------------------
(* SpecJoin: MustRegisterCode of internal/pkg/util, called up to MaxCalls
   times for a service whose source file has up to MaxJoinSpecs specs.  The
   three extractions are one step; then one symbol of errorCodes is visited
   per step, in any order (Go's map iteration order). *)

MaxJoinSpecs == 2
MaxCalls == 2

\* strconv.Atoi(s): an optional sign and decimal digits.  The statuses of the
\* model have at most three digits, far from the range error.
RECURSIVE DecimalValue(_, _)
DecimalValue(s, acc) ==
    IF s = <<>> THEN acc ELSE DecimalValue(Drop(s, 1), acc * 10 + DigitVal(s[1]))

Atoi(s) ==
    LET neg == s # <<>> /\ s[1] = "-"
        body == IF s # <<>> /\ s[1] \in {"-", "+"} THEN Drop(s, 1) ELSE s
    IN  IF body = <<>> \/ \E i \in 1..Len(body) : DigitVal(body[i]) > 9
        THEN [v |-> 0, ok |-> FALSE]
        ELSE [v |-> IF neg THEN -DecimalValue(body, 0) ELSE DecimalValue(body, 0),
              ok |-> TRUE]

\* var CodePath = map[string]string{"apiserver": ...}
CodePath == {"apiserver"}
Services == {"apiserver", "billing"}

DocBadStatus == Comment(<<"E", "r", "r", "A">>, <<"x">>, <<"n", "o">>)

CodeSpec(names, values, comments) ==
    [names |-> names, values |-> values, comments |-> comments]

\* specs of a code file: a symbol with a value and a comment of the form, and
\* symbols that lack one of the two or have a comment a parser stumbles over
CodePool ==
    { CodeSpec(<<"A">>, <<IotaPlus10>>, <<DocNotFound>>),
      CodeSpec(<<"B">>, <<IotaPlus10>>, <<DocConflict>>),
      CodeSpec(<<"B">>, <<Ident("iota")>>, <<DocConflict>>),
      CodeSpec(<<"A">>, <<IotaPlus10>>, <<>>),
      CodeSpec(<<"C">>, <<StrK>>, <<DocNotFound>>),
      CodeSpec(<<"C">>, <<IotaPlus10>>, <<DocNoPrefix>>),
      CodeSpec(<<"C">>, <<IotaPlus10>>, <<DocBadStatus>>),
      CodeSpec(<<"C">>, <<IotaPlus10>>, <<DocBare>>) }

CodeItems == {[spec |-> vs, how |-> h] : vs \in CodePool, h \in {"same", "const"}}

Sources ==
    {Source(TRUE, Decls(items)) : items \in SeqsUpTo(CodeItems, MaxJoinSpecs)}
        \cup {Source(FALSE, <<>>)}

JoinAt(at, service, src, calls, ints, http, ext, todo, last, pre) ==
    [pc |-> at, service |-> service, src |-> src, calls |-> calls,
     ints |-> ints, http |-> http, ext |-> ext, todo |-> todo, last |-> last, pre |-> pre]

NoSymbol == [name |-> "", registered |-> FALSE, before |-> EmptyMap]

InitJoin ==
    /\ RegistryInit /\ ConcIdle
    /\ fn = "none" /\ file = <<>> /\ di = 0 /\ si = 0 /\ lineIota = 0 /\ prevRHS = <<>>
    /\ out = EmptyMap /\ outStr = EmptyMap
    /\ lastEval = [decl |-> 0, spec |-> 0, iota |-> 0, before |-> EmptyMap]
    /\ xpc = "idle" /\ parse = "none" /\ app = NoApp
    /\ \E service \in Services, src \in Sources :
          join = JoinAt("idle", service, src, 0, EmptyMap, EmptyMap, EmptyMap, {},
                        NoSymbol, InitCodes)

\* serrors.Code{C: code, Ext: ext, HTTP: status}
JoinedCodeNoStatus(code, status, ext) == Code(code, 0, ext, "")
JoinedCode(code, status, ext) == Code(code, status, ext, "")

\* MustRegisterCode up to the loop: the service's path and the three extractions
JoinCall ==
    /\ join.pc \in {"idle", "nil", "error"}
    /\ join.calls < MaxCalls
    /\ LET ints == ExtractInt(join.src)
           http == ExtractComment(join.src, "ParseErrHTTPStatus")
           ext == ExtractComment(join.src, "ParseErrExternal")
           at == IF join.service \notin CodePath \/ ints.err THEN "error"
                 ELSE IF http.panic THEN "panicked"
                 ELSE IF http.err THEN "error"
                 ELSE IF ext.panic THEN "panicked"
                 ELSE IF ext.err THEN "error"
                 ELSE "loop"
       IN  join' = IF at = "loop"
                   THEN JoinAt("loop", join.service, join.src, join.calls + 1,
                               ints.map, http.map, ext.map, DOMAIN ints.map, NoSymbol, codes)
                   ELSE JoinAt(at, join.service, join.src, join.calls + 1,
                               EmptyMap, EmptyMap, EmptyMap, {}, NoSymbol, codes)
    /\ UNCHANGED <<regVars, concVars, fn, file, di, si, lineIota, prevRHS, out, outStr,
                   lastEval, xpc, parse, app>>

\* one iteration of `for err, code := range errorCodes`
JoinVisit(name) ==
    /\ join.pc = "loop" /\ name \in join.todo
    /\ LET joinable == name \in DOMAIN join.ext /\ name \in DOMAIN join.http
           status == Atoi(join.http[name])
           coder == JoinedCode(join.ints[name], status.v, join.ext[name])
           aborts == ReservedPanic(coder) \/ ExistsPanic(codes, coder)
       IN  IF ~joinable
           THEN /\ join' = [join EXCEPT !.todo = @ \ {name},
                                        !.last = [name |-> name, registered |-> FALSE,
                                                  before |-> codes]]
                /\ UNCHANGED <<codes, call>>
           ELSE IF ~status.ok
           THEN /\ join' = [join EXCEPT !.pc = "error", !.todo = @ \ {name},
                                        !.last = [name |-> name, registered |-> FALSE,
                                                  before |-> codes]]
                /\ UNCHANGED <<codes, call>>
           ELSE /\ join' = [join EXCEPT !.pc = IF aborts THEN "panicked" ELSE @,
                                        !.todo = @ \ {name},
                                        !.last = [name |-> name, registered |-> ~aborts,
                                                  before |-> codes]]
                /\ codes' = IF aborts THEN codes ELSE Store(codes, coder)
                /\ call' = Called("MustRegister", coder, <<>>, 0, aborts, NilCoder, FALSE,
                                  codes)
    /\ UNCHANGED <<lastRegistered, leaked, concVars, fn, file, di, si, lineIota, prevRHS,
                   out, outStr, lastEval, xpc, parse, app>>

\* `return nil` after the loop
JoinReturn ==
    /\ join.pc = "loop" /\ join.todo = {}
    /\ join' = [join EXCEPT !.pc = "nil"]
    /\ UNCHANGED <<regVars, concVars, fn, file, di, si, lineIota, prevRHS, out, outStr,
                   lastEval, xpc, parse, app>>

NextJoin == JoinCall \/ (\E name \in {"A", "B", "C"} : JoinVisit(name)) \/ JoinReturn

SpecJoin == InitJoin /\ [][NextJoin]_vars

-----------------------------------------------------------------------------
(* SpecFile: SpecJoin, and one direct call of an extractor on the same source
   file, at any moment. *)

CallExtractInt ==
    /\ join.pc # "none" /\ app = NoApp
    /\ app' = [f |-> "ExtractInt", res |-> ExtractInt(join.src)]
    /\ UNCHANGED <<regVars, concVars, walkVars>>

CallExtractString ==
    /\ join.pc # "none" /\ app = NoApp
    /\ app' = [f |-> "ExtractString", res |-> ExtractString(join.src)]
    /\ UNCHANGED <<regVars, concVars, walkVars>>

CallExtractComment(parser) ==
    /\ join.pc # "none" /\ app = NoApp
    /\ app' = [f |-> "ExtractComment", res |-> ExtractComment(join.src, parser)]
    /\ UNCHANGED <<regVars, concVars, walkVars>>

NextFile ==
    \/ NextJoin
    \/ CallExtractInt
    \/ CallExtractString
    \/ \E parser \in Parsers : CallExtractComment(parser)

SpecFile == InitJoin /\ [][NextFile]_vars

-----------------------------------------------------------------------------
(* SpecEvalBoth: both evaluators applied to one expression, and both
   extractors applied to a const block declaring names with it:
       const ( A, B = e
               C )                                                          *)

BothExprs == IntExprs \cup StrExprs

DeclaredWith(e) ==
    Source(TRUE, <<GenDecl("const", <<ValueSpec(<<"A", "B">>, <<e>>),
                                      ValueSpec(<<"C">>, <<>>)>>)>>)

InitEvalBoth ==
    /\ RegistryInit /\ ConcIdle /\ WalkerIdle
    /\ \E e \in BothExprs, i \in 0..MaxIota :
          app = [f |-> "input", e |-> e, iotaVal |-> i, int |-> Fail, str |-> FailStr,
                 ints |-> EmptyMap, strs |-> EmptyMap]

CallBothEvaluators ==
    /\ app.f = "input"
    /\ app' = [app EXCEPT !.f = "both",
                          !.int = evalIntConst(app.e, app.iotaVal),
                          !.str = evalStringConst(app.e, app.iotaVal),
                          !.ints = ExtractInt(DeclaredWith(app.e)).map,
                          !.strs = ExtractString(DeclaredWith(app.e)).map]
    /\ UNCHANGED <<regVars, concVars, walkVars>>

NextEvalBoth == CallBothEvaluators

SpecEvalBoth == InitEvalBoth /\ [][NextEvalBoth]_vars

-----------------------------------------------------------------------------
(* SpecStatus: Code.HTTPStatus applied on its own to a Code value. *)

StatusCoders ==
    {Code(c, h, ext, ref) : c \in 0..MaxCode, h \in {-1, 0, 200, 404, 500},
                            ext \in {"", "x"}, ref \in {"", "r"}}

InitStatus ==
    /\ RegistryInit /\ ConcIdle /\ WalkerIdle
    /\ \E coder \in StatusCoders : app = [f |-> "input", coder |-> coder, res |-> 0]

CallHTTPStatus ==
    /\ app.f = "input"
    /\ app' = [app EXCEPT !.f = "HTTPStatus", !.res = HTTPStatus(app.coder)]
    /\ UNCHANGED <<regVars, concVars, walkVars>>

NextStatus == CallHTTPStatus

SpecStatus == InitStatus /\ [][NextStatus]_vars

-----------------------------------------------------------------------------
(* SpecApp: an App built by NewApp from a choice of options, and one
   execution of its root command.  The outcomes of viper and of the options'
   own methods are inputs of the execution. *)

OptionKinds == {"nil", "plain", "completeable", "printable"}

NotRun == [ran |-> FALSE, called |-> FALSE, ret |-> "nil", log |-> <<>>,
           bindErr |-> FALSE, unmarshalErr |-> FALSE,
           completeErr |-> FALSE, validateErr |-> FALSE]

NewApp(runFunc, silence, noVersion, noConfig, options) ==
    [f |-> "App", runFunc |-> runFunc, silence |-> silence,
     noVersion |-> noVersion, noConfig |-> noConfig, options |-> options,
     runE |-> runFunc, run |-> NotRun]

InitApp ==
    /\ RegistryInit /\ ConcIdle /\ WalkerIdle
    /\ \E runFunc, silence, noVersion, noConfig \in BOOLEAN, options \in OptionKinds :
           app = NewApp(runFunc, silence, noVersion, noConfig, options)

applyOptionRules(a, completeErr, validateErr) ==
    IF a.options = "completeable" /\ completeErr
    THEN [err |-> "complete", log |-> <<>>]
    ELSE IF validateErr
    THEN [err |-> "validate", log |-> <<>>]
    ELSE [err |-> "nil",
          log |-> IF a.options = "printable" /\ ~a.silence
                  THEN <<"options">> ELSE <<>>]

SilenceSkips(a) == a.silence

runCommand(a, bindErr, unmarshalErr, completeErr, validateErr, runErr) ==
    LET head  == <<"wd", "flags">>
                 \o (IF ~a.noVersion THEN <<"version">> ELSE <<>>)
        bound == IF a.noConfig THEN "nil"
                 ELSE IF bindErr THEN "bind"
                 ELSE IF unmarshalErr THEN "unmarshal" ELSE "nil"
        start == head \o <<"starting">>
                 \o (IF ~a.noVersion THEN <<"version">> ELSE <<>>)
                 \o (IF ~a.noConfig THEN <<"config">> ELSE <<>>)
        rules == IF a.options # "nil"
                 THEN applyOptionRules(a, completeErr, validateErr)
                 ELSE [err |-> "nil", log |-> <<>>]
    IN  IF bound # "nil"
        THEN [called |-> FALSE, ret |-> bound, log |-> head]
        ELSE IF SilenceSkips(a)
        THEN [called |-> FALSE, ret |-> "nil", log |-> head]
        ELSE IF rules.err # "nil"
        THEN [called |-> FALSE, ret |-> rules.err, log |-> start]
        ELSE IF a.runFunc
        THEN [called |-> TRUE, ret |-> IF runErr THEN "run" ELSE "nil",
              log |-> start \o rules.log]
        ELSE [called |-> FALSE, ret |-> "nil", log |-> start \o rules.log]

\* cobra runs RunE, which buildCommand sets to runCommand when runFunc is set.
ExecuteRunE ==
    /\ app.f = "App" /\ ~app.run.ran /\ app.runE
    /\ \E bindErr, unmarshalErr, completeErr, validateErr, runErr \in BOOLEAN :
           LET r == runCommand(app, bindErr, unmarshalErr, completeErr,
                               validateErr, runErr)
           IN  app' = [app EXCEPT !.run =
                          [ran |-> TRUE, called |-> r.called, ret |-> r.ret,
                           log |-> r.log, bindErr |-> bindErr,
                           unmarshalErr |-> unmarshalErr,
                           completeErr |-> completeErr,
                           validateErr |-> validateErr]]
    /\ UNCHANGED <<regVars, concVars, walkVars>>

\* Without a runFunc the command has no RunE and cobra runs nothing.
ExecuteNoRunE ==
    /\ app.f = "App" /\ ~app.run.ran /\ ~app.runE
    /\ app' = [app EXCEPT !.run.ran = TRUE]
    /\ UNCHANGED <<regVars, concVars, walkVars>>

NextApp == ExecuteRunE \/ ExecuteNoRunE

SpecApp == InitApp /\ [][NextApp]_vars

----------------------------------------------------------------------------
(* Claims about the registry *)

\* the positions of the code-carrying wrappers of an error chain
Wrappers(err) == {i \in 1..Len(err) : err[i].withCode}

\* the smallest element of a non-empty set of numbers
Min(S) == CHOOSE x \in S : \A y \in S : x <= y

\* C2: a MustRegister call with a nonzero code that is already a key of the
\* registry panics and leaves the registry as it was before the call.
C2_MustRegisterExistingAborts ==
    (call.op = "MustRegister" /\ call.coder.C # 0 /\ call.coder.C \in DOMAIN call.pre)
        => (call.panicked /\ codes = call.pre)

\* a second MustRegister of code 2 with another descriptor has panicked and the
\* first descriptor is still stored
C2_Witness ==
    /\ call.op = "MustRegister" /\ call.coder.C = 2 /\ call.panicked
    /\ 2 \in DOMAIN codes /\ codes[2] # call.coder /\ 2 \notin DOMAIN lastRegistered

\* C3: for every nonzero code that Register has stored, ParseCoder of an error
\* whose outermost code-carrying wrapper has that code returns the Coder of the
\* latest such Register call; Register with a nonzero code never panics and
\* stores its Coder, over an existing entry too.
C3_ClassifyReflectsLatestRegister ==
    /\ \A c \in DOMAIN lastRegistered, err \in Errs :
          (c # 0 /\ Wrappers(err) # {} /\ err[Min(Wrappers(err))].code = c)
              => ParseCoder(codes, err) = Some(lastRegistered[c])
    /\ (call.op = "Register" /\ call.coder.C # 0)
          => (~call.panicked /\ codes[call.coder.C] = call.coder)

\* code 1 held the descriptor installed by init, Register replaced it, and a
\* later ParseCoder call returned the replacement
C3_Witness ==
    /\ call.op = "ParseCoder" /\ Len(call.err) = 2 /\ call.err[2] = withCode(1)
    /\ 1 \in DOMAIN lastRegistered
    /\ call.res = Some(lastRegistered[1]) /\ call.res # Some(unknownCoder)

\* C4: the registry never has an entry under key 0, and a Register or
\* MustRegister call with code 0 panics and leaves the registry unchanged.
C4_ZeroRejected ==
    /\ 0 \notin DOMAIN codes
    /\ (call.op \in {"Register", "MustRegister"} /\ call.coder.C = 0)
          => (call.panicked /\ codes = call.pre)

C4_Witness ==
    /\ call.op = "Register" /\ call.coder = Code(0, 404, "x", "") /\ call.panicked
    /\ DOMAIN codes = {1, 2}

\* C5 (as claimed): in every state reached by Register and MustRegister calls
\* the sentinel installed by init is still the entry stored under its code.
C5_SentinelNeverReplaced ==
    unknownCoder.C \in DOMAIN codes /\ codes[unknownCoder.C] = unknownCoder

\* C6: ParseCoder(nil) is nil; ParseCoder of a non-nil error with no
\* code-carrying wrapper, or whose outermost wrapper's code is no key of the
\* registry, is the unknown descriptor, whose code is 1 and HTTP status 500,
\* whatever has been registered.
C6_ClassifyNeverFails ==
    call.op = "ParseCoder" =>
        /\ call.err = <<>> => call.res = NilCoder
        /\ (/\ call.err # <<>>
            /\ \/ Wrappers(call.err) = {}
               \/ call.err[Min(Wrappers(call.err))].code \notin DOMAIN codes)
              => /\ call.res = Some(unknownCoder)
                 /\ call.res[1].C = 1
                 /\ HTTPStatus(call.res[1]) = 500

\* code 1 has been re-registered with another descriptor, and ParseCoder of an
\* error carrying the unregistered code 2 still returned the unknown descriptor
C6_Witness ==
    /\ call.op = "ParseCoder" /\ call.err = <<plainErr, withCode(2)>>
    /\ 2 \notin DOMAIN codes /\ codes[1] # unknownCoder
    /\ call.res = Some(unknownCoder)

\* C7: IsCode(err, code) is true exactly when some link of the chain is a
\* code-carrying wrapper with that code; it is false for nil.
C7_HasCodeIffInChain ==
    call.op = "IsCode" =>
        call.ok = (\E i \in 1..Len(call.err) :
                      call.err[i].withCode /\ call.err[i].code = call.code)

\* the queried code sits two levels below a wrapper with another code
C7_Witness ==
    /\ call.op = "IsCode" /\ call.ok
    /\ call.err = <<withCode(1), plainErr, withCode(2)>> /\ call.code = 2

\* C8 (as claimed): the code map changes only in a Register or MustRegister call.
C8_OnlyRegisterMutates ==
    [][codes' # codes => call'.op \in {"Register", "MustRegister"}]_vars

\* C1 (as claimed): a goroutine takes ParseCoder's map lookup only while no
\* Register or MustRegister call holds the mutex.
C1_ReadsSerialized ==
    [][\A p \in Procs :
          (pc[p] = "parse_lookup" /\ pc'[p] # "parse_lookup") => mu = 0]_vars

----------------------------------------------------------------------------
(* Claims about ExtractInt and ExtractString *)

\* the largest element of a non-empty set of numbers
Max(S) == CHOOSE x \in S : \A y \in S : x >= y

\* the result map of the extractor that runs
Result == IF fn = "ExtractInt" THEN out ELSE outStr

\* C9: the placeholder given to the n-th spec of a const block is n - 1: it is 0
\* at the block's first spec and one more at each next spec, whatever the
\* spec's names, expression list and evaluation results are.
C9_PlaceholderIsPosition ==
    /\ lastEval.spec # 0 => lastEval.iota = lastEval.spec - 1
    /\ xpc = "spec" => lineIota = si - 1

\* the third spec of a block was given 2, after a two-name spec whose
\* evaluation failed and a two-name spec without an expression list
C9_Witness ==
    /\ fn = "ExtractInt"
    /\ file = <<GenDecl("const", <<ValueSpec(<<"A", "B">>, <<TenOverIota>>),
                                   ValueSpec(<<"B", "C">>, <<>>),
                                   ValueSpec(<<"C">>, <<>>)>>)>>
    /\ lastEval.spec = 3 /\ lastEval.iota = 2
    /\ "A" \notin DOMAIN out /\ out["B"] = 10 /\ out["C"] = 5

\* the block `A = iota + 10; B; C`
CarryExample ==
    <<GenDecl("const", <<ValueSpec(<<"A">>, <<IotaPlus10>>),
                         ValueSpec(<<"B">>, <<>>),
                         ValueSpec(<<"C">>, <<>>)>>)>>

\* C10: a spec without an expression list is evaluated with the list of the
\* nearest spec before it in the same block that has one, and with its own
\* placeholder; when the block has no such spec, the spec gives its names no
\* value.  `A = iota + 10; B; C` yields A = 10, B = 11, C = 12.
C10_CarriedExpressionList ==
    /\ lastEval.spec # 0 =>
         LET g == file[lastEval.decl].specs
             k == lastEval.spec
             names == g[k].names
             carriers == {j \in 1..k : g[j].values # <<>>}
         IN  IF carriers = {}
             THEN Result = lastEval.before
             ELSE LET list == g[Max(carriers)].values
                      expr(i) == IF i <= Len(list) THEN list[i] ELSE list[Len(list)]
                      value(i) == IF fn = "ExtractInt"
                                  THEN evalIntConst(expr(i), k - 1)
                                  ELSE evalStringConst(expr(i), k - 1)
                  IN  \A i \in 1..Len(names) :
                         IF value(i).ok
                         THEN names[i] \in DOMAIN Result /\ Result[names[i]] = value(i).v
                         ELSE /\ names[i] \in DOMAIN Result <=> names[i] \in DOMAIN lastEval.before
                              /\ names[i] \in DOMAIN Result
                                   => Result[names[i]] = lastEval.before[names[i]]
    /\ (xpc = "done" /\ fn = "ExtractInt" /\ file = CarryExample)
         => out = ("A" :> 10 @@ "B" :> 11 @@ "C" :> 12)

\* a block `A = iota + 10`, then a new block `B; C`: B was evaluated after A's
\* block closed, and neither B nor C has a value
C10_Witness ==
    /\ fn = "ExtractInt" /\ xpc = "done"
    /\ file = <<GenDecl("const", <<ValueSpec(<<"A">>, <<IotaPlus10>>)>>),
                GenDecl("const", <<ValueSpec(<<"B", "C">>, <<>>),
                                   ValueSpec(<<"C">>, <<>>)>>)>>
    /\ lastEval.decl = 2 /\ lastEval.spec = 2
    /\ out = ("A" :> 10)

\* the expression list a spec is evaluated with: its own, or that of the
\* nearest spec before it in its block that has one; <<>> when there is none
EffectiveList(g, k) ==
    IF \E j \in 1..k : g[j].values # <<>>
    THEN g[Max({j \in 1..k : g[j].values # <<>>})].values
    ELSE <<>>

\* what the running extractor's evaluator makes of an expression
Eval(e, iotaVal) ==
    IF fn = "ExtractInt" THEN evalIntConst(e, iotaVal) ELSE evalStringConst(e, iotaVal)

\* the map has the same entry, or no entry, for the name as the other map
SameEntry(m, n, name) ==
    /\ name \in DOMAIN m <=> name \in DOMAIN n
    /\ name \in DOMAIN m => m[name] = n[name]

\* C11 (as claimed): the names of a spec beyond the length of its expression
\* list get no value: the result map keeps what it had for them.
C11_UnmatchedNamesSkipped ==
    lastEval.spec # 0 =>
        LET g == file[lastEval.decl].specs
            names == g[lastEval.spec].names
            list == EffectiveList(g, lastEval.spec)
        IN  (list # <<>> /\ Len(list) < Len(names))
                => \A i \in (Len(list) + 1)..Len(names) :
                       SameEntry(Result, lastEval.before, names[i])

\* C11 (amended): the names of a spec beyond the length of its non-empty
\* expression list are evaluated with the last expression of the list and get
\* its value when the evaluation succeeds; they get no value when it fails.
C11_UnmatchedNamesUseLast ==
    lastEval.spec # 0 =>
        LET g == file[lastEval.decl].specs
            names == g[lastEval.spec].names
            list == EffectiveList(g, lastEval.spec)
            last == Eval(list[Len(list)], lastEval.spec - 1)
        IN  (list # <<>> /\ Len(list) < Len(names))
                => \A i \in (Len(list) + 1)..Len(names) :
                       IF last.ok
                       THEN names[i] \in DOMAIN Result /\ Result[names[i]] = last.v
                       ELSE SameEntry(Result, lastEval.before, names[i])

\* `A, B = 10 / iota` as the second spec of a block: B, which has no expression
\* of its own, has the value of 10 / 1
C11_Witness ==
    /\ fn = "ExtractInt"
    /\ file = <<GenDecl("const", <<ValueSpec(<<"A">>, <<IotaPlus10>>),
                                   ValueSpec(<<"A", "B">>, <<TenOverIota>>)>>)>>
    /\ lastEval.spec = 2
    /\ "B" \notin DOMAIN lastEval.before /\ out["B"] = 10

\* C12: expandRHS returns exactly as many entries as there are names; entry i
\* is expression i of the list while the list lasts, and every entry beyond
\* the list is the list's last expression.
C12_ExpandedToNames ==
    app.f = "expandRHS" =>
        /\ Len(app.res) = app.n
        /\ \A i \in 1..app.n :
              /\ i <= Len(app.rhs) => app.res[i] = app.rhs[i]
              /\ (i > Len(app.rhs) /\ app.rhs # <<>>)
                     => app.res[i] = app.rhs[Len(app.rhs)]

\* two expressions for four names: names three and four use the second
C12_Witness ==
    /\ app.f = "expandRHS"
    /\ app.rhs = <<IotaPlus10, TenOverIota>> /\ app.n = 4
    /\ app.res = <<IotaPlus10, TenOverIota, TenOverIota, TenOverIota>>

\* C13: evalIntConst returns an int and a flag for every expression; the flag
\* is false for a division or a modulo by zero, for a shift by a negative
\* amount, for every shape it does not support (an identifier other than the
\* placeholder, a call, a literal that is no integer, a unary or binary
\* operator outside its set), and for a binary expression one of whose
\* operands evaluates with a false flag.
C13_EvalIntNeverFaults ==
    app.f = "evalIntConst" =>
        LET e == app.e
            res == app.res
            l == evalIntConst(e.args[1], app.iotaVal)
            r == evalIntConst(e.args[2], app.iotaVal)
        IN  /\ res \in [v : MinInt..MaxInt, ok : BOOLEAN]
            /\ e.k \notin {"ParenExpr", "Ident", "BasicLit", "UnaryExpr", "BinaryExpr"}
                   => ~res.ok
            /\ (e.k = "Ident" /\ e.name # "iota") => ~res.ok
            /\ (e.k = "BasicLit" /\ e.kind # "INT") => ~res.ok
            /\ (e.k = "UnaryExpr" /\ e.op \notin {"+", "-"}) => ~res.ok
            /\ e.k = "BinaryExpr" =>
                  /\ e.op \notin IntOps => ~res.ok
                  /\ (~l.ok \/ ~r.ok) => ~res.ok
                  /\ (e.op \in {"/", "%"} /\ r.ok /\ r.v = 0) => ~res.ok
                  /\ (e.op \in {"<<", ">>"} /\ r.ok /\ r.v < 0) => ~res.ok

\* 2 << -1 has been evaluated, with a false flag
C13_Witness ==
    /\ app.f = "evalIntConst" /\ ~app.res.ok
    /\ app.e = BinaryExpr(IntLit(Decimal(2)), "<<", UnaryExpr("-", IntLit(Decimal(1))))

\* the expression name i of a spec is evaluated with, given the spec's
\* effective list
ExprFor(list, i) ==
    IF list = <<>> THEN NilExpr
    ELSE IF i <= Len(list) THEN list[i] ELSE list[Len(list)]

Places(name) ==
    {p \in (1..Len(file)) \X (1..MaxSpecs) \X (1..MaxNames) :
        /\ file[p[1]].tok = "const"
        /\ p[2] <= Len(file[p[1]].specs)
        /\ p[3] <= Len(file[p[1]].specs[p[2]].names)
        /\ file[p[1]].specs[p[2]].names[p[3]] = name}

\* file order
Before(p, q) ==
    \/ p[1] < q[1]
    \/ p[1] = q[1] /\ p[2] < q[2]
    \/ p[1] = q[1] /\ p[2] = q[2] /\ p[3] <= q[3]

LastOf(S) == CHOOSE q \in S : \A p \in S : Before(p, q)

\* what the declaration at a place evaluates to
ValueAt(p) ==
    LET g == file[p[1]].specs
        expr == ExprFor(EffectiveList(g, p[2]), p[3])
    IN  IF expr = NilExpr THEN Fail ELSE evalIntConst(expr, p[2] - 1)

Names == {"A", "B", "C"}

\* C17 (as claimed): what the map ExtractInt returns holds for a name is the
\* value of the name's last declaration in file order.
C17_LastDeclarationWins ==
    (xpc = "done" /\ fn = "ExtractInt") =>
        \A name \in Names :
            IF Places(name) # {} /\ ValueAt(LastOf(Places(name))).ok
            THEN name \in DOMAIN out /\ out[name] = ValueAt(LastOf(Places(name))).v
            ELSE name \notin DOMAIN out

\* C17 (amended): what the map ExtractInt returns holds for a name is the
\* value of the last declaration of the name, in file order, among those
\* whose expression evaluates; a name none of whose declarations evaluates has
\* no entry.
C17_LastEvaluatedDeclarationWins ==
    (xpc = "done" /\ fn = "ExtractInt") =>
        \A name \in Names :
            LET S == {p \in Places(name) : ValueAt(p).ok}
            IN  IF S # {}
                THEN name \in DOMAIN out /\ out[name] = ValueAt(LastOf(S)).v
                ELSE name \notin DOMAIN out

\* `const ( B; A = iota + 10 )` then `const ( A = iota + 10 )`: A was 11 and is 10
C17_Witness ==
    /\ xpc = "done" /\ fn = "ExtractInt"
    /\ file = <<GenDecl("const", <<ValueSpec(<<"B">>, <<>>),
                                   ValueSpec(<<"A">>, <<IotaPlus10>>)>>),
                GenDecl("const", <<ValueSpec(<<"A">>, <<IotaPlus10>>)>>)>>
    /\ lastEval.before = ("A" :> 11)
    /\ out = ("A" :> 10)

(* Claims about ExtractComment *)

\* the const specs of the file that declare the name and have a comment
\* group attached
Documented(name) ==
    {p \in Places(name) : file[p[1]].specs[p[2]].comments # <<>>}

\* the text of the last comment group attached to the spec of a place
DocText(p) ==
    LET cs == file[p[1]].specs[p[2]].comments IN cs[Len(cs)]

\* C18: the map ExtractComment returns has an entry for a name exactly when a
\* const spec declaring the name has a comment group attached; the entry is
\* what the parse function returns for the text of the group (of the last
\* one, when the spec or the name has several); all names of one spec get
\* the same value.
C18_EntryIffDocumented ==
    /\ (fn = "ExtractComment" /\ xpc = "done") =>
          \A name \in Names :
             /\ name \in DOMAIN outStr <=> Documented(name) # {}
             /\ Documented(name) # {}
                   => outStr[name] = Apply(parse, DocText(LastOf(Documented(name)))).s
    /\ (fn = "ExtractComment" /\ lastEval.spec # 0 /\ xpc # "panicked") =>
          LET vs == file[lastEval.decl].specs[lastEval.spec]
          IN  IF vs.comments = <<>>
              THEN outStr = lastEval.before
              ELSE \A i \in 1..Len(vs.names) :
                      /\ vs.names[i] \in DOMAIN outStr
                      /\ outStr[vs.names[i]] = outStr[vs.names[1]]

\* `// ErrB - 409: be.` above `B, C`: both names have the message
C18_Witness ==
    /\ fn = "ExtractComment" /\ parse = "ParseErrExternal" /\ xpc = "done"
    /\ file = <<GenDecl("const", <<CommentedSpec(<<"A">>, <<>>),
                                   CommentedSpec(<<"B", "C">>, <<DocConflict>>)>>)>>
    /\ outStr = ("B" :> <<"b", "e">> @@ "C" :> <<"b", "e">>)

(* Claims about the comment parsers *)

\* the text before the first occurrence of sep in s, all of s without one
UpTo(s, sep) == IF Index(s, sep) = 0 THEN s ELSE SubSeq(s, 1, Index(s, sep) - 1)

\* the text after the first occurrence of sep in s
After(s, sep) == Drop(s, Index(s, sep) + Len(sep) - 1)

\* C19: for a comment `<Name> - <Status>: <Message>.` whose name starts with
\* Err, ParseErrHTTPStatus returns the status, the third field separated by
\* spaces before the first colon, and ParseErrExternal returns the text
\* between the first colon-and-space and the first full stop after it, the
\* whole message when the message has no full stop.
C19_ParsersReturnFields ==
    /\ (app.f = "ParseErrHTTPStatus" /\ app.in.formed) =>
          /\ ~app.res.panic
          /\ app.res.s = app.in.status
    /\ (app.f = "ParseErrExternal" /\ app.in.formed) =>
          /\ ~app.res.panic
          /\ app.res.s = UpTo(After(app.in.com, <<":", " ">>), <<".">>)
          /\ Index(app.in.message, <<".">>) = 0 => app.res.s = app.in.message

\* C20: both parsers return for every comment text, the empty string when the
\* text does not start with Err or lacks a separator, and ExtractComment goes
\* on to the remaining specs whatever the comments are.
C20_BadCommentNeverAborts ==
    /\ app.f \in Parsers =>
          /\ ~app.res.panic
          /\ ~HasPrefix(app.in.com, ErrPrefix) => app.res.s = <<>>
    /\ fn = "ExtractComment" => xpc # "panicked"

(* Claims about evalIntConst *)

\* the expression is built from integer literals, the placeholder,
\* parentheses, unary + and -, and the ten binary operators, no divisor in it
\* is zero and no shift count negative
RECURSIVE Built(_, _)
Built(e, iotaVal) ==
    CASE e.k = "BasicLit" -> e.kind = "INT"
      [] e.k = "Ident" -> e.name = "iota"
      [] e.k = "ParenExpr" -> Built(e.args[1], iotaVal)
      [] e.k = "UnaryExpr" -> e.op \in {"+", "-"} /\ Built(e.args[1], iotaVal)
      [] e.k = "BinaryExpr" ->
            /\ e.op \in IntOps
            /\ Built(e.args[1], iotaVal) /\ Built(e.args[2], iotaVal)
            /\ e.op \in {"/", "%"} => evalIntConst(e.args[2], iotaVal).v # 0
            /\ e.op \in {"<<", ">>"} => evalIntConst(e.args[2], iotaVal).v >= 0
      [] OTHER -> FALSE

\* the number an integer literal of the model's texts denotes in Go
LitValue(t) ==
    CASE t = <<"0", "x", "f">> -> 15
      [] t = <<"0", "1", "0">> -> 8
      [] t = <<"1", "_", "0">> -> 10
      [] OTHER -> CHOOSE n \in 0..(MaxInt + 1) : Decimal(n) = t

\* every integer literal of the expression denotes a number an int holds
RECURSIVE LiteralsFit(_)
LiteralsFit(e) ==
    /\ e.k = "BasicLit" => LitValue(e.text) <= MaxInt
    /\ \A i \in 1..Len(e.args) : LiteralsFit(e.args[i])

\* bit i of the two's-complement representation of x
Bit(x, i) == ((x % (2 ^ IntBits)) \div (2 ^ i)) % 2

\* the int the operator yields from the ints a and b
IsResultOf(op, a, b, v) ==
    CASE op = "+" -> v = Wrap(a + b)
      [] op = "-" -> v = Wrap(a - b)
      [] op = "*" -> v = Wrap(a * b)
      [] op = "/" -> \E q \in (MinInt - 1)..(MaxInt + 1) :
                        /\ v = Wrap(q)
                        /\ Abs(a - q * b) < Abs(b)
                        /\ a - q * b # 0 => (a - q * b < 0) = (a < 0)
      [] op = "%" -> \E q \in (MinInt - 1)..(MaxInt + 1) :
                        /\ v = a - q * b
                        /\ Abs(v) < Abs(b)
                        /\ v # 0 => (v < 0) = (a < 0)
      [] op = "|" -> \A i \in 0..(IntBits - 1) :
                        Bit(v, i) = IF Bit(a, i) = 1 \/ Bit(b, i) = 1 THEN 1 ELSE 0
      [] op = "&" -> \A i \in 0..(IntBits - 1) :
                        Bit(v, i) = IF Bit(a, i) = 1 /\ Bit(b, i) = 1 THEN 1 ELSE 0
      [] op = "^" -> \A i \in 0..(IntBits - 1) :
                        Bit(v, i) = IF Bit(a, i) # Bit(b, i) THEN 1 ELSE 0
      [] op = "<<" -> \A i \in 0..(IntBits - 1) :
                        Bit(v, i) = IF i >= b THEN Bit(a, i - b) ELSE 0
      [] op = ">>" -> \A i \in 0..(IntBits - 1) :
                        Bit(v, i) = IF i + b < IntBits THEN Bit(a, i + b) ELSE 0

\* the result is the value of the expression, given the values of its operands
ValueHolds(e, iotaVal, res) ==
    /\ res.ok
    /\ res.v \in MinInt..MaxInt
    /\ CASE e.k = "BasicLit" -> res.v = LitValue(e.text)
         [] e.k = "Ident" -> res.v = iotaVal
         [] e.k = "ParenExpr" -> res = evalIntConst(e.args[1], iotaVal)
         [] e.k = "UnaryExpr" ->
               LET x == evalIntConst(e.args[1], iotaVal).v
               IN  res.v = IF e.op = "-" THEN Wrap(-x) ELSE x
         [] e.k = "BinaryExpr" ->
               /\ IsResultOf(e.op, evalIntConst(e.args[1], iotaVal).v,
                             evalIntConst(e.args[2], iotaVal).v, res.v)
               /\ (e.op = ">>" /\ evalIntConst(e.args[2], iotaVal).v >= 1) => res.v >= 0
               /\ (e.op \in {"<<", ">>"} /\ evalIntConst(e.args[2], iotaVal).v >= IntBits)
                      => res.v = 0

\* C15 (as claimed): every expression built from integer literals, the
\* placeholder, parentheses, unary + and -, and the ten binary operators, with
\* no zero divisor and no negative shift count, evaluates with a true flag to
\* its two's-complement value.
C15_EveryBuiltExpressionEvaluates ==
    (app.f = "evalIntConst" /\ Built(app.e, app.iotaVal))
        => ValueHolds(app.e, app.iotaVal, app.res)

\* C15 (amended): such an expression, when each of its integer literals
\* denotes a number that an int holds, evaluates with a true flag to its
\* two's-complement value: + - * wrap, / truncates toward zero, % has the sign
\* of the dividend, | & ^ act on the bits, << and >> shift the bits of the
\* unsigned reinterpretation and fill with zeros, so that >> by one or more is
\* never negative and a shift by the width or more is 0.
C15_FittingLiteralsEvaluate ==
    (app.f = "evalIntConst" /\ Built(app.e, app.iotaVal) /\ LiteralsFit(app.e))
        => ValueHolds(app.e, app.iotaVal, app.res)

\* -1 >> 1 has been evaluated to the largest int
C15_Witness ==
    /\ app.f = "evalIntConst"
    /\ app.e = BinaryExpr(UnaryExpr("-", IntLit(Decimal(1))), ">>", IntLit(Decimal(1)))
    /\ app.res = Ok(MaxInt)

(* Claims about evalStringConst *)

\* the expression is built from string and character literals, parentheses
\* and binary +
RECURSIVE StrBuilt(_)
StrBuilt(e) ==
    CASE e.k = "BasicLit" -> e.kind \in {"STRING", "CHAR"}
      [] e.k = "ParenExpr" -> StrBuilt(e.args[1])
      [] e.k = "BinaryExpr" -> e.op = "+" /\ StrBuilt(e.args[1]) /\ StrBuilt(e.args[2])
      [] OTHER -> FALSE

\* the literals of the expression, left to right
RECURSIVE Leaves(_)
Leaves(e) ==
    IF e.k = "BasicLit" THEN <<e>>
    ELSE IF Len(e.args) = 0 THEN <<>>
    ELSE IF Len(e.args) = 1 THEN Leaves(e.args[1])
    ELSE Leaves(e.args[1]) \o Leaves(e.args[2])

\* the string a literal of the model denotes in Go
LitString(lit) ==
    CASE lit = StrK -> <<"k">>
      [] lit = StrEmpty -> <<>>
      [] lit = StrEscN -> <<"a", LF>>
      [] lit = StrEscQ -> <<DQ>>
      [] lit = StrRaw -> <<"r", BS, "n">>
      [] lit = CharC -> <<"c">>
      [] lit = CharQ -> <<SQ>>

RECURSIVE Concat(_)
Concat(lits) ==
    IF lits = <<>> THEN <<>> ELSE LitString(lits[1]) \o Concat(Drop(lits, 1))

\* C16: evalStringConst returns a true flag exactly for the expressions built
\* from string and character literals, parentheses and binary +, and then its
\* string is the strings its literals denote, concatenated left to right; an
\* identifier (the placeholder too), a literal of another kind and another
\* operator make the flag false.
C16_EvalStringConcatenates ==
    app.f = "evalStringConst" =>
        /\ app.res.ok <=> StrBuilt(app.e)
        /\ app.res.ok => app.res.v = Concat(Leaves(app.e))
        /\ app.e.k = "Ident" => ~app.res.ok
        /\ (app.e.k = "BasicLit" /\ app.e.kind \notin {"STRING", "CHAR"}) => ~app.res.ok
        /\ (app.e.k = "BinaryExpr" /\ app.e.op # "+") => ~app.res.ok

\* ("a\n") + ("k" + 'c') has been evaluated to a, newline, k, c
C16_Witness ==
    /\ app.f = "evalStringConst"
    /\ app.e = BinaryExpr(ParenExpr(StrEscN), "+", ParenExpr(BinaryExpr(StrK, "+", CharC)))
    /\ app.res = Ok(<<"a", LF, "k", "c">>)

(* Claims about MustRegisterCode *)

\* the descriptor the join makes of a symbol that has all three entries
Descriptor(name) ==
    Code(join.ints[name], Atoi(join.http[name]).v, join.ext[name], "")

Complete(name) ==
    /\ name \in DOMAIN join.ints
    /\ name \in DOMAIN join.ext
    /\ name \in DOMAIN join.http

\* C21: MustRegisterCode registers a symbol only when it has an integer value,
\* an external message and an HTTP status; visiting a symbol that lacks one
\* registers nothing and ends nothing; a registered descriptor has the
\* symbol's value as code, the number of its status as HTTP status and its
\* message as external message.
C21_JoinRegistersComplete ==
    join.pc \in {"loop", "nil", "error", "panicked"} =>
        /\ \A c \in (DOMAIN codes) \ (DOMAIN join.pre) :
              \E name \in DOMAIN join.ints :
                 /\ Complete(name) /\ Atoi(join.http[name]).ok
                 /\ join.ints[name] = c
                 /\ codes[c] = Descriptor(name)
        /\ join.last.name # "" =>
              /\ join.last.registered =>
                    /\ Complete(join.last.name)
                    /\ codes = Put(join.last.before, join.ints[join.last.name],
                                   Descriptor(join.last.name))
              /\ ~Complete(join.last.name) =>
                    /\ codes = join.last.before
                    /\ join.pc \in {"loop", "nil"}

\* `A = iota + 10` under `// ErrA - 404: no.` and `C = "k"` under the same
\* comment: A is registered as 10, 404, no; C, which has no integer value, is not
C21_Witness ==
    /\ join.pc = "nil"
    /\ join.src = Source(TRUE, <<GenDecl("const",
                     <<CodeSpec(<<"A">>, <<IotaPlus10>>, <<DocNotFound>>),
                       CodeSpec(<<"C">>, <<StrK>>, <<DocNotFound>>)>>)>>)
    /\ "C" \in DOMAIN join.ext /\ "C" \notin DOMAIN join.ints
    /\ codes = Put(InitCodes, 10, Code(10, 404, <<"n", "o">>, ""))

\* C22: a symbol for whose comment a parser returned the empty string is
\* dropped at the join: visiting it registers nothing and does not end the
\* call, which goes on to the other symbols and returns no error.
C22_MalformedCommentDropped ==
    (/\ join.pc \in {"loop", "nil", "error", "panicked"}
     /\ join.last.name # ""
     /\ Complete(join.last.name)
     /\ (join.http[join.last.name] = <<>> \/ join.ext[join.last.name] = <<>>))
        => /\ codes = join.last.before
           /\ join.pc \in {"loop", "nil"}

\* C23: for a source file that does not parse, ExtractInt, ExtractString and
\* ExtractComment return an error and a nil map, and MustRegisterCode returns
\* an error and has registered nothing.
C23_ParseFailureIsAnError ==
    ~join.src.parses =>
        /\ app.f \in {"ExtractInt", "ExtractString", "ExtractComment"} =>
              /\ app.res.err /\ app.res.nil /\ ~app.res.panic
              /\ app.res.map = EmptyMap
        /\ join.pc # "idle" => (join.pc = "error" /\ codes = InitCodes /\ join.todo = {})

\* ExtractComment and MustRegisterCode have both returned an error for the
\* unparsable file of a known service
C23_Witness ==
    /\ ~join.src.parses /\ join.service \in CodePath
    /\ app.f = "ExtractComment" /\ app.res.err
    /\ join.pc = "error" /\ join.calls = 1

(* Claims about Code.HTTPStatus *)

\* C24: HTTPStatus returns the HTTP field of the Code when the field is not
\* zero, and 200 when it is.
C24_StatusOr200 ==
    app.f = "HTTPStatus" =>
        app.res = IF app.coder.HTTP # 0 THEN app.coder.HTTP ELSE 200

(* Claims about App.runCommand *)

BindingSucceeded ==
    app.noConfig \/ (~app.run.bindErr /\ ~app.run.unmarshalErr)

RulesSucceeded ==
    \/ app.options = "nil"
    \/ /\ ~app.run.validateErr
       /\ app.options = "completeable" => ~app.run.completeErr

\* C25: every execution of runCommand of an App with a runFunc in which flag
\* binding and the option rules succeed calls the runFunc, also when the App
\* was built with WithSilence.
C25_RunFuncCalledWhenRulesPass ==
    (app.f = "App" /\ app.run.ran /\ app.runFunc
        /\ BindingSucceeded /\ RulesSucceeded)
    => app.run.called

(* Claims about concurrent MustRegister calls *)

\* the goroutines that called MustRegister with code c
Racing(c) == {p \in Procs : pc[p] # "idle" /\ arg[p].C = c}

\* those past the insertion, and those that found the code taken
Inserted(c) == {p \in Racing(c) : pc[p] \in {"unlock", "done"}}
Aborted(c) == {p \in Racing(c) : pc[p] \in {"panic_unlock", "panicked"}}

\* C26: of the concurrent MustRegister calls with one nonzero unregistered
\* code, in every interleaving exactly one inserts and every other aborts:
\* between a call's existence test and its insertion it holds mu and the code
\* stays absent, and the entry left is the succeeding call's descriptor.
C26_OneOfTheRacersInserts ==
    \A c \in (1..MaxCode) \ DOMAIN InitCodes :
        /\ Cardinality(Inserted(c)) <= 1
        /\ \A p \in Racing(c) :
               pc[p] \in {"must_check", "must_store", "unlock", "panic_unlock"}
               => mu = p
        /\ \A p \in Racing(c) : pc[p] = "must_store" => c \notin DOMAIN codes
        /\ c \in DOMAIN codes <=> Inserted(c) # {}
        /\ \A p \in Inserted(c) : codes[c] = arg[p]
        /\ (Racing(c) # {} /\ \A p \in Racing(c) : pc[p] \in {"done", "panicked"})
           => /\ Cardinality(Inserted(c)) = 1
              /\ Aborted(c) = Racing(c) \ Inserted(c)

C26_Witness ==
    \E c \in (1..MaxCode) \ DOMAIN InitCodes :
        /\ Racing(c) = Procs
        /\ \E p, q \in Procs :
               /\ arg[p] # arg[q]
               /\ pc[p] = "done" /\ pc[q] = "panicked"
               /\ codes[c] = arg[p]
        /\ \A p \in Procs : pc[p] \in {"done", "panicked"}

(* Claims relating ParseCoder and IsCode *)

\* the code of the outermost code-carrying wrapper of err
OuterCode(err) == err[Min(Wrappers(err))].code

\* C27: ParseCoder looks at the outermost code-carrying wrapper only: every
\* error with the same outermost wrapper code is classified alike, and when
\* that code is unregistered the result is the unknown descriptor, also when
\* a nested cause carries a registered code c, for which IsCode(err, c) holds.
C27_OutermostWrapperDecides ==
    (call.op = "ParseCoder" /\ call.err # <<>> /\ Wrappers(call.err) # {}) =>
        /\ \A other \in Errs :
               (Wrappers(other) # {} /\ OuterCode(other) = OuterCode(call.err))
               => ParseCoder(codes, other) = call.res
        /\ OuterCode(call.err) \notin DOMAIN codes
           => /\ call.res = Some(unknownCoder)
              /\ \A c \in DOMAIN codes :
                     (c # unknownCoder.C /\ IsCode(call.err, c))
                     => call.res # Some(codes[c])

\* code 2 is registered and sits below a wrapper with the unregistered code 0:
\* IsCode finds it, ParseCoder returns the unknown descriptor
C27_Witness ==
    /\ call.op = "ParseCoder" /\ call.err = <<withCode(0), withCode(2)>>
    /\ 2 \in DOMAIN codes /\ codes[2] # unknownCoder
    /\ IsCode(call.err, 2)
    /\ call.res = Some(unknownCoder)

(* Claims about the two evaluators together *)

\* C28: for every expression and placeholder value at most one of
\* evalIntConst and evalStringConst returns ok, and no declared name gets an
\* entry both in ExtractInt's and in ExtractString's map.
C28_EvaluatorsExclusive ==
    app.f = "both" =>
        /\ ~(app.int.ok /\ app.str.ok)
        /\ DOMAIN app.ints \cap DOMAIN app.strs = {}

\* (2) at placeholder 1: an integer, not a string; A, B and C are integers
C28_Witness ==
    /\ app.f = "both" /\ app.e = ParenExpr(IntLit(Decimal(2))) /\ app.iotaVal = 1
    /\ app.int = Ok(2) /\ ~app.str.ok
    /\ DOMAIN app.ints = {"A", "B", "C"} /\ app.strs = EmptyMap

(* Claims about MustRegisterCode and the entries already registered *)

\* cds has every entry of old, unchanged
Keeps(cds, old) == \A c \in DOMAIN old : c \in DOMAIN cds /\ cds[c] = old[c]

\* the symbol visited last reached the MustRegister call
Offered(name) == Complete(name) /\ Atoi(join.http[name]).ok

\* the first of two calls returned nil and registered a code
FirstCallRegistered ==
    /\ join.calls = 2
    /\ join.service \in CodePath /\ join.src.parses
    /\ \A name \in DOMAIN join.ints : Complete(name) => Atoi(join.http[name]).ok
    /\ \E name \in DOMAIN join.ints : Complete(name)

\* C29: MustRegisterCode never replaces a registry entry.  A symbol is
\* registered only under a nonzero code that is no key yet; when the value of
\* the symbol offered to MustRegister is 0 or is a key already -- of an earlier
\* symbol of the file, of an entry registered before the call (the unknown
\* descriptor's code 1 among them), or of the first of two calls for the
\* service -- the call aborts and the registry stays as it was.
C29_JoinNeverOverwrites ==
    join.pc \in {"loop", "nil", "error", "panicked"} =>
        /\ Keeps(codes, InitCodes)
        /\ Keeps(codes, join.pre)
        /\ Keeps(codes, join.last.before)
        /\ (join.last.name # "" /\ Offered(join.last.name)) =>
              LET v == join.ints[join.last.name]
              IN  IF v = 0 \/ v \in DOMAIN join.last.before
                  THEN /\ join.pc = "panicked"
                       /\ ~join.last.registered
                       /\ codes = join.last.before
                  ELSE /\ join.last.registered
                       /\ codes = Put(join.last.before, v, Descriptor(join.last.name))
        /\ FirstCallRegistered =>
              /\ join.pc # "nil"
              /\ codes = join.pre
              /\ (\E name \in DOMAIN join.ints \ join.todo : Complete(name))
                 => join.pc = "panicked"

\* the second call for the service, after a first that registered A as 10, has
\* aborted at A
C29_Witness ==
    /\ FirstCallRegistered
    /\ join.pc = "panicked"
    /\ join.last.name = "A" /\ join.ints["A"] = 10
    /\ 10 \in DOMAIN join.pre
    /\ codes = join.pre

\* the other cases: two symbols with the value 10, a symbol with the value 1,
\* a symbol with the value 0
C29_SameValue ==
    /\ join.calls = 1 /\ join.pc = "panicked" /\ join.last.name # ""
    /\ \E n \in DOMAIN join.ints \ {join.last.name} : join.ints[n] = join.ints[join.last.name]
    /\ join.ints[join.last.name] = 10

C29_UnknownsCode ==
    /\ join.calls = 1 /\ join.pc = "panicked" /\ join.last.name # ""
    /\ join.ints[join.last.name] = 1

C29_Zero ==
    /\ join.calls = 1 /\ join.pc = "panicked" /\ join.last.name # ""
    /\ join.ints[join.last.name] = 0

\* C30: whenever MustRegisterCode returns an error -- unknown service, a
\* failed extraction, a status that is not a number -- the registry is as it
\* was before the call, whatever the order in which the symbols were visited.
C30_ErrorLeavesRegistryAsBefore ==
    join.pc = "error" => codes = join.pre

\* The walkers of SpecExtract and SpecComment return what the extractors
\* return as functions of the file.
WalkersAgree ==
    xpc = "done" =>
        /\ fn = "ExtractInt" => out = ExtractInt(Source(TRUE, file)).map
        /\ fn = "ExtractString" => outStr = ExtractString(Source(TRUE, file)).map
        /\ fn = "ExtractComment" => outStr = ExtractComment(Source(TRUE, file), parse).map

====
